---- MODULE Spec2Model ----
(***************************************************************************)
(* Visual_Node_AI_Editor: the pipeline graph compiler.                     *)
(*                                                                         *)
(* The editor holds a graph of ML nodes and connections (Rete editor,      *)
(* rete/app/editor.ts).  utils/pipelineToCode.ts compiles an exported      *)
(* graph: validatePipelineStructure (gate), topologicalSort,               *)
(* getSimpleVarName, nodeToCode, generateImports, and the exporters.       *)
(* LogicEditorPage.jsx holds validatePipeline (batch validation of a       *)
(* proposed pipeline).                                                     *)
(***************************************************************************)
EXTENDS Integers, Sequences, FiniteSets, TLC

\* ------------------------------------------------------------------ bounds
\* Largest number of nodes and of connections the editor graph holds.
MaxNodes == 3
MaxConns == 3
\* Largest number of nodes and of connections a proposed pipeline holds.
MaxPipelineNodes == 2
MaxPipelineConns == 2
\* Largest number of node ids getUID hands out in a behaviour.
MaxUid == 6

\* ---------------------------------------------------------------- registry
\* The ten node kinds createNodeByKind can build.
MLKinds ==
    {"dataLoader", "dataSplit", "scaler", "featureSelection", "classifier",
     "regressor", "neuralNet", "evaluate", "predict", "hyperparamTune"}

\* Input socket keys each node class declares (addInput).
Inputs(kind) ==
    CASE kind = "dataLoader" -> {}
      [] kind = "dataSplit" -> {"data"}
      [] kind = "scaler" -> {"X_train", "X_test"}
      [] kind = "evaluate" -> {"model", "X_test", "y_test", "prediction"}
      [] kind = "predict" -> {"model", "X_test"}
      [] kind \in {"featureSelection", "classifier", "regressor", "neuralNet",
                   "hyperparamTune"} -> {"X_train", "y_train"}
      [] OTHER -> {}

\* Output socket keys each node class declares (addOutput).
Outputs(kind) ==
    CASE kind = "dataLoader" -> {"data"}
      [] kind = "dataSplit" -> {"X_train", "y_train", "X_test", "y_test"}
      [] kind = "scaler" -> {"X_train", "X_test"}
      [] kind = "featureSelection" -> {"X_train"}
      [] kind \in {"classifier", "regressor", "neuralNet", "hyperparamTune"} -> {"model"}
      [] kind = "evaluate" -> {}
      [] kind = "predict" -> {"prediction"}
      [] OTHER -> {}

\* The label each node class passes to super(...); error messages quote it.
Label(kind) ==
    CASE kind = "dataLoader" -> "Data Loader"
      [] kind = "dataSplit" -> "Data Split"
      [] kind = "scaler" -> "Scaler"
      [] kind = "featureSelection" -> "Feature Selection"
      [] kind = "classifier" -> "Classifier"
      [] kind = "regressor" -> "Regressor"
      [] kind = "neuralNet" -> "Neural Network"
      [] kind = "evaluate" -> "Evaluate"
      [] kind = "predict" -> "Predict"
      [] kind = "hyperparamTune" -> "Hyperparameter Tuning"
      [] OTHER -> "?"

\* ------------------------------------------------------------- basic helpers
Range(s) == {s[i] : i \in DOMAIN s}

\* Node ids are strings; they are held as sequences of one-character strings so
\* that String.replace can be applied to them.
AlphaNum ==
    {"a","b","c","d","e","f","g","h","i","j","k","l","m","n","o","p","q","r","s",
     "t","u","v","w","x","y","z","A","B","C","D","E","F","G","H","I","J","K","L",
     "M","N","O","P","Q","R","S","T","U","V","W","X","Y","Z","0","1","2","3","4",
     "5","6","7","8","9"}

Digit(i) == CASE i = 1 -> "1" [] i = 2 -> "2" [] i = 3 -> "3" [] i = 4 -> "4"
              [] i = 5 -> "5" [] i = 6 -> "6" [] i = 7 -> "7" [] i = 8 -> "8"
              [] OTHER -> "9"

\* The id the editor gives its i-th node (Rete's getUID yields alphanumerics).
NodeId(i) == <<"n", Digit(i)>>

\* getUID never gives an id twice: a new node gets the id after the latest
\* one of the nodes at hand (ids of the form NodeId(i)).
UidIndex(id) == CHOOSE i \in 1..9 : Digit(i) = id[2]

NextUid(ns) ==
    IF ns = <<>> THEN 1
    ELSE 1 + UidIndex((CHOOSE n \in Range(ns) :
                          \A m \in Range(ns) : UidIndex(m.id) <= UidIndex(n.id)).id)

Reverse(s) == [i \in DOMAIN s |-> s[Len(s) + 1 - i]]

\* id.replace(/[^a-zA-Z0-9]/g, '_')
Sanitize(id) == [i \in DOMAIN id |-> IF id[i] \in AlphaNum THEN id[i] ELSE "_"]

\* ------------------------------------------------------------------- state
VARIABLES
    nodes,        \* editor.getNodes(): sequence of [id, kind], insertion order
    connections,  \* editor.getConnections(): sequence of connection records
    outcome,      \* what the last compile call returned or threw
    pipeline,     \* a proposed pipeline handed to validatePipeline
    validation,   \* what validatePipeline returned for it
    storage,      \* localStorage holds csv_data_<fileName> for the loaders' file
    viewport,     \* area.area.transform: zoom and pan of the canvas
    generatedCode,    \* the page's generatedCode state (the text last stored)
    showCodePreview,  \* the page's showCodePreview state
    saved             \* data.graph of the logic as onSave stored it

vars == <<nodes, connections, outcome, pipeline, validation, storage, viewport,
          generatedCode, showCodePreview, saved>>

\* ------------------------------------------------- gate validation (throws)
\* A PipelineValidationError: which message, the node labels it quotes and the
\* input names its text mentions.  NoError: nothing was thrown.
NoError == [type |-> "none", labels |-> <<>>, inputs |-> {}]

ValidationError(type, labels, inputs) ==
    [type |-> type, labels |-> labels, inputs |-> inputs]

\* connections.filter(c => c.target === node.id)
Incoming(node, cs) == SelectSeq(cs, LAMBDA c : c.target = node.id)

\* RequiredInputError that asks a trainer for X_train only.
RequiredInputErrorXTrainOnly(node, cs) ==
    LET incoming == Incoming(node, cs)
        hasXTrain == \E i \in DOMAIN incoming : incoming[i].targetInput = "X_train"
    IN  IF node.kind = "dataSplit" /\ Len(incoming) = 0
        THEN ValidationError("dataSplitNeedsInput", <<Label(node.kind)>>, {"data"})
        ELSE IF node.kind \in {"classifier", "regressor", "neuralNet"} /\ ~hasXTrain
        THEN ValidationError("modelNeedsBoth", <<Label(node.kind)>>,
                             {"X_train", "y_train"})
        ELSE NoError

\* The third check's verdict on one node (the body of nodes.forEach).
RequiredInputError(node, cs) ==
    LET incoming == Incoming(node, cs)
        hasXTrain == \E i \in DOMAIN incoming : incoming[i].targetInput = "X_train"
        hasYTrain == \E i \in DOMAIN incoming : incoming[i].targetInput = "y_train"
    IN  IF node.kind = "dataSplit" /\ Len(incoming) = 0
        THEN ValidationError("dataSplitNeedsInput", <<Label(node.kind)>>, {"data"})
        ELSE IF node.kind \in {"classifier", "regressor", "neuralNet"}
                /\ (~hasXTrain \/ ~hasYTrain)
        THEN ValidationError("modelNeedsBoth", <<Label(node.kind)>>,
                             {"X_train", "y_train"})
        ELSE NoError

\* validatePipelineStructure without its orphan check.
ValidateWithoutOrphanCheck(ns, cs) ==
    LET hasDataLoader == \E i \in DOMAIN ns : ns[i].kind = "dataLoader"
        failing == {i \in DOMAIN ns : RequiredInputError(ns[i], cs) # NoError}
    IN  IF ~hasDataLoader
        THEN ValidationError("noDataLoader", <<>>, {})
        ELSE IF failing # {}
        THEN RequiredInputError(ns[CHOOSE i \in failing : \A j \in failing : i <= j], cs)
        ELSE NoError

\* validatePipelineStructure with the required-input check moved before the
\* orphan check.
ValidateInputsBeforeOrphans(ns, cs) ==
    LET hasDataLoader == \E i \in DOMAIN ns : ns[i].kind = "dataLoader"
        connectedNodes == {cs[i].source : i \in DOMAIN cs}
                              \cup {cs[i].target : i \in DOMAIN cs}
        orphanedNodes ==
            SelectSeq(ns, LAMBDA n : n.kind # "dataLoader" /\ n.id \notin connectedNodes)
        failing == {i \in DOMAIN ns : RequiredInputError(ns[i], cs) # NoError}
    IN  IF ~hasDataLoader
        THEN ValidationError("noDataLoader", <<>>, {})
        ELSE IF failing # {}
        THEN RequiredInputError(ns[CHOOSE i \in failing : \A j \in failing : i <= j], cs)
        ELSE IF Len(orphanedNodes) > 0
        THEN ValidationError("orphaned",
                             [i \in DOMAIN orphanedNodes |-> Label(orphanedNodes[i].kind)],
                             {})
        ELSE NoError

\* validatePipelineStructure: the error it throws, NoError when it returns.
ValidatePipelineStructure(ns, cs) ==
    LET hasDataLoader == \E i \in DOMAIN ns : ns[i].kind = "dataLoader"
        connectedNodes == {cs[i].source : i \in DOMAIN cs}
                              \cup {cs[i].target : i \in DOMAIN cs}
        orphanedNodes ==
            SelectSeq(ns, LAMBDA n : n.kind # "dataLoader" /\ n.id \notin connectedNodes)
        failing == {i \in DOMAIN ns : RequiredInputError(ns[i], cs) # NoError}
    IN  IF ~hasDataLoader
        THEN ValidationError("noDataLoader", <<>>, {})
        ELSE IF Len(orphanedNodes) > 0
        THEN ValidationError("orphaned",
                             [i \in DOMAIN orphanedNodes |-> Label(orphanedNodes[i].kind)],
                             {})
        ELSE IF failing # {}
        THEN RequiredInputError(ns[CHOOSE i \in failing : \A j \in failing : i <= j], cs)
        ELSE NoError

\* ------------------------------------------------------- topologicalSort
\* The keys of a Map in insertion order: s without its later repetitions.
RECURSIVE Dedup(_)
Dedup(s) ==
    IF s = <<>> THEN <<>>
    ELSE LET front == Dedup(SubSeq(s, 1, Len(s) - 1))
             last == s[Len(s)]
         IN  IF last \in Range(front) THEN front ELSE Append(front, last)

NodeIds(ns) == [i \in DOMAIN ns |-> ns[i].id]

\* nodeMap.get(id) of new Map(nodes.map(n => [n.id, n])): the last node with
\* that id.  Only used for ids that occur.
NodeById(ns, id) ==
    ns[CHOOSE i \in DOMAIN ns : ns[i].id = id /\ \A j \in DOMAIN ns : ns[j].id = id => j <= i]

\* Keys of inDegree with the nodes taken from the left of the canvas to the
\* right.
InDegreeKeysLeftToRight(ns, cs) ==
    Dedup(NodeIds(SelectSeq(ns, LAMBDA n : n.position.x = 0))
              \o NodeIds(SelectSeq(ns, LAMBDA n : n.position.x # 0))
              \o [i \in DOMAIN cs |-> cs[i].target])

\* Keys of inDegree in insertion order: the node ids, then every connection
\* target that is no node id (inDegree.set creates the key).
InDegreeKeys(ns, cs) == Dedup(NodeIds(ns) \o [i \in DOMAIN cs |-> cs[i].target])

\* inDegree after the two forEach loops.
InitialInDegree(ns, cs) ==
    [id \in Range(InDegreeKeys(ns, cs)) |->
        Cardinality({i \in DOMAIN cs : cs[i].target = id})]

\* graph.get(id): the targets pushed for a node id, in connection order;
\* <<>> when id is no key (graph.get(conn.source)?.push is skipped).
Neighbors(ns, cs, id) ==
    IF id \in Range(NodeIds(ns))
    THEN LET out == SelectSeq(cs, LAMBDA c : c.source = id)
         IN  [i \in DOMAIN out |-> out[i].target]
    ELSE <<>>

\* Relax without the test on the new degree: every neighbour is enqueued.
RECURSIVE RelaxAlwaysEnqueue(_, _)
RelaxAlwaysEnqueue(neighbors, st) ==
    IF neighbors = <<>> THEN st
    ELSE LET nb == Head(neighbors)
             degree == st.deg[nb] - 1
         IN  RelaxAlwaysEnqueue(Tail(neighbors),
                                [deg |-> [st.deg EXCEPT ![nb] = degree],
                                 queue |-> Append(st.queue, nb)])

\* Relax that puts a released neighbour at the head of the queue.
RECURSIVE RelaxPushFront(_, _)
RelaxPushFront(neighbors, st) ==
    IF neighbors = <<>> THEN st
    ELSE LET nb == Head(neighbors)
             degree == st.deg[nb] - 1
         IN  RelaxPushFront(Tail(neighbors),
                            [deg |-> [st.deg EXCEPT ![nb] = degree],
                             queue |-> IF degree = 0 THEN <<nb>> \o st.queue
                                       ELSE st.queue])

\* graph.get(nodeId)?.forEach(...): decrement each neighbour, enqueue at zero.
\* st = [deg, queue].
RECURSIVE Relax(_, _)
Relax(neighbors, st) ==
    IF neighbors = <<>> THEN st
    ELSE LET nb == Head(neighbors)
             degree == st.deg[nb] - 1
         IN  Relax(Tail(neighbors),
                   [deg |-> [st.deg EXCEPT ![nb] = degree],
                    queue |-> IF degree = 0 THEN Append(st.queue, nb) ELSE st.queue])

\* The while loop over the queue.
RECURSIVE KahnLoop(_, _, _, _, _)
KahnLoop(ns, cs, queue, deg, sorted) ==
    IF queue = <<>> THEN sorted
    ELSE LET nodeId == Head(queue)
             sorted2 == IF nodeId \in Range(NodeIds(ns))
                        THEN Append(sorted, NodeById(ns, nodeId))
                        ELSE sorted
             st == Relax(Neighbors(ns, cs, nodeId), [deg |-> deg, queue |-> Tail(queue)])
         IN  KahnLoop(ns, cs, st.queue, st.deg, sorted2)

\* topologicalSort that hands back the nodes it could not release after the
\* released ones.
TopologicalSortWithRemainder(ns, cs) ==
    LET deg == InitialInDegree(ns, cs)
        queue == SelectSeq(InDegreeKeys(ns, cs), LAMBDA id : deg[id] = 0)
        sorted == KahnLoop(ns, cs, queue, deg, <<>>)
    IN  sorted \o SelectSeq(ns, LAMBDA n : n.id \notin Range(NodeIds(sorted)))

\* topologicalSort(nodes, connections): the sorted array it returns.
TopologicalSort(ns, cs) ==
    LET deg == InitialInDegree(ns, cs)
        queue == SelectSeq(InDegreeKeys(ns, cs), LAMBDA id : deg[id] = 0)
    IN  KahnLoop(ns, cs, queue, deg, <<>>)

\* ------------------------------------------------------- getSimpleVarName
\* A Python identifier of the generated text, held in parts so that
\* concatenations compare as the strings do: pre ++ num ++ "_" id ++ "_" sfx
\* (num = 0, id = <<>>, sfx = "" stand for an absent part).
Name(pre, id, num, sfx) == [pre |-> pre, id |-> id, num |-> num, sfx |-> sfx]

\* A literal identifier such as data, X_all, y_pred.
Lit(s) == Name(s, <<>>, 0, "")

\* `${name}_${sfx}`
Field(name, sfx) == [name EXCEPT !.sfx = sfx]

\* `step_${id.replace(/[^a-zA-Z0-9]/g, '_')}`
StepName(id) == Name("step", Sanitize(id), 0, "")

\* kindMap[node.kind] || 'step'
BaseName(kind) ==
    CASE kind = "dataLoader" -> "data"
      [] kind = "dataSplit" -> "split"
      [] kind = "scaler" -> "scaler"
      [] kind = "featureSelection" -> "feature"
      [] kind = "classifier" -> "model"
      [] kind = "regressor" -> "model"
      [] kind = "neuralNet" -> "nn"
      [] kind = "evaluation" -> "eval"
      [] kind = "tuning" -> "tuner"
      [] OTHER -> "step"

\* nodeIndex kept from one call to the next: it starts with the counts the
\* call before left.
NodeIndexKeptBetweenCalls(kind) ==
    Cardinality({i \in DOMAIN outcome.blocks : outcome.blocks[i].kind = kind})

\* nodeIndex.get(kind) || 0 before the call's first getSimpleVarName:
\* generatePythonCode makes nodeIndex (and varNameMap) with new Map() in each
\* call, so no kind has a count.
NodeIndexAtStart(kind) == 0

\* getSimpleVarName for the i-th node of the schedule: nodeIndex holds, per
\* kind, how many nodes of that kind were named before.
SimpleVarName(sorted, i) ==
    LET index == NodeIndexAtStart(sorted[i].kind)
                     + Cardinality({j \in 1..(i - 1) : sorted[j].kind = sorted[i].kind})
    IN  Name(BaseName(sorted[i].kind), <<>>, IF index = 0 THEN 0 ELSE index + 1, "")

\* varNameMap.has(id)
HasVarName(sorted, id) == id \in Range(NodeIds(sorted))

\* varNameMap.get(id): the name set last for that id.
VarNameOf(sorted, id) ==
    SimpleVarName(sorted,
        CHOOSE i \in DOMAIN sorted :
            sorted[i].id = id /\ \A j \in DOMAIN sorted : sorted[j].id = id => j <= i)

\* ------------------------------------------------------------- nodeToCode
\* connections.find(c => c.target === id && c.targetInput === key): its index,
\* 0 when there is none.
FindConn(cs, id, key) ==
    LET hits == {i \in DOMAIN cs : cs[i].target = id /\ cs[i].targetInput = key}
    IN  IF hits = {} THEN 0 ELSE CHOOSE i \in hits : \A j \in hits : i <= j

\* varNameMap?.get(conn.source) || `step_${...}`
SourceName(sorted, conn) ==
    IF HasVarName(sorted, conn.source) THEN VarNameOf(sorted, conn.source)
    ELSE StepName(conn.source)

\* getSourceVarName
GetSourceVarName(cs, sorted, id, key) ==
    LET k == FindConn(cs, id, key)
    IN  IF k = 0 THEN Lit("data") ELSE SourceName(sorted, cs[k])

\* getSourceOutputVar
GetSourceOutputVar(cs, sorted, id, key) ==
    LET k == FindConn(cs, id, key)
    IN  IF k = 0 THEN Lit("data") ELSE Field(SourceName(sorted, cs[k]), cs[k].sourceOutput)

\* `step_${conn.source.replace(...)}_${conn.sourceOutput}`
StepOutputVar(conn) == Field(StepName(conn.source), conn.sourceOutput)

\* One read of a block: the input it serves, the identifier read and the
\* connection's source node (<<>> when the input is unconnected).
Read(cs, id, key, name) ==
    LET k == FindConn(cs, id, key)
    IN  [input |-> key, name |-> name, source |-> IF k = 0 THEN <<>> ELSE cs[k].source]

\* A generated block: the node, which template was emitted, the identifiers
\* the template reads for its inputs, the identifiers it assigns and, for a
\* warning-only block ('# WARNING: ...'), the inputs the warning names.
Block(node, form, reads, defs) ==
    [id |-> node.id, kind |-> node.kind, form |-> form, reads |-> reads,
     defs |-> defs, missing |-> {}]

WarningBlock(node, missing) ==
    [id |-> node.id, kind |-> node.kind, form |-> "warning", reads |-> {},
     defs |-> {}, missing |-> missing]

\* The inputs among keys that have no connection into the node.
Unconnected(cs, id, keys) == {k \in keys : FindConn(cs, id, k) = 0}

\* case 'featureSelection', 'classifier', 'regressor', 'neuralNet',
\* 'hyperparamTune': both X_train and y_train are needed, else a warning.
TrainBlock(node, cs, form, defs) ==
    IF Unconnected(cs, node.id, {"X_train", "y_train"}) # {}
    THEN WarningBlock(node, Unconnected(cs, node.id, {"X_train", "y_train"}))
    ELSE Block(node, form,
               {Read(cs, node.id, k, StepOutputVar(cs[FindConn(cs, node.id, k)])) :
                    k \in {"X_train", "y_train"}},
               defs)

\* case 'evaluate' that never looks at the kind of the model's source.
EvaluateBlockClassificationOnly(node, cs, ns) ==
    LET modelConn == FindConn(cs, node.id, "model")
        xTestConn == FindConn(cs, node.id, "X_test")
        yTestConn == FindConn(cs, node.id, "y_test")
        predictionConn == FindConn(cs, node.id, "prediction")
        hasPrediction == predictionConn # 0
        hasModel == modelConn # 0 /\ xTestConn # 0
        isRegression == FALSE
        metrics == Field(StepName(node.id), "metrics")
        yTestRead == Read(cs, node.id, "y_test", StepOutputVar(cs[yTestConn]))
    IN  IF ~hasPrediction /\ ~hasModel
        THEN WarningBlock(node, {"prediction", "model", "X_test", "y_test"})
        ELSE IF yTestConn = 0
        THEN WarningBlock(node, {"y_test"})
        ELSE IF hasPrediction
        THEN Block(node,
                   IF isRegression THEN "evaluateRegressionPrediction"
                   ELSE "evaluateClassificationPrediction",
                   {yTestRead,
                    Read(cs, node.id, "prediction", StepOutputVar(cs[predictionConn]))},
                   {metrics})
        ELSE Block(node,
                   IF isRegression THEN "evaluateRegressionModel"
                   ELSE "evaluateClassificationModel",
                   {yTestRead,
                    Read(cs, node.id, "model",
                         Field(StepName(cs[modelConn].source), "model")),
                    Read(cs, node.id, "X_test", StepOutputVar(cs[xTestConn]))},
                   {Lit("y_pred"), metrics})

\* case 'evaluate' that predicts from the model whenever model and X_test are
\* connected, and uses a connected prediction only otherwise.
EvaluateBlockModelFirst(node, cs, ns) ==
    LET modelConn == FindConn(cs, node.id, "model")
        xTestConn == FindConn(cs, node.id, "X_test")
        yTestConn == FindConn(cs, node.id, "y_test")
        predictionConn == FindConn(cs, node.id, "prediction")
        hasPrediction == predictionConn # 0
        hasModel == modelConn # 0 /\ xTestConn # 0
        isRegression ==
            /\ modelConn # 0
            /\ cs[modelConn].source \in Range(NodeIds(ns))
            /\ NodeById(ns, cs[modelConn].source).kind = "regressor"
        metrics == Field(StepName(node.id), "metrics")
        yTestRead == Read(cs, node.id, "y_test", StepOutputVar(cs[yTestConn]))
    IN  IF ~hasPrediction /\ ~hasModel
        THEN WarningBlock(node, {"prediction", "model", "X_test", "y_test"})
        ELSE IF yTestConn = 0
        THEN WarningBlock(node, {"y_test"})
        ELSE IF ~hasModel
        THEN Block(node,
                   IF isRegression THEN "evaluateRegressionPrediction"
                   ELSE "evaluateClassificationPrediction",
                   {yTestRead,
                    Read(cs, node.id, "prediction", StepOutputVar(cs[predictionConn]))},
                   {metrics})
        ELSE Block(node,
                   IF isRegression THEN "evaluateRegressionModel"
                   ELSE "evaluateClassificationModel",
                   {yTestRead,
                    Read(cs, node.id, "model",
                         Field(StepName(cs[modelConn].source), "model")),
                    Read(cs, node.id, "X_test", StepOutputVar(cs[xTestConn]))},
                   {Lit("y_pred"), metrics})

\* case 'evaluate'
EvaluateBlock(node, cs, ns) ==
    LET modelConn == FindConn(cs, node.id, "model")
        xTestConn == FindConn(cs, node.id, "X_test")
        yTestConn == FindConn(cs, node.id, "y_test")
        predictionConn == FindConn(cs, node.id, "prediction")
        hasPrediction == predictionConn # 0
        hasModel == modelConn # 0 /\ xTestConn # 0
        isRegression ==
            /\ modelConn # 0
            /\ cs[modelConn].source \in Range(NodeIds(ns))
            /\ NodeById(ns, cs[modelConn].source).kind = "regressor"
        metrics == Field(StepName(node.id), "metrics")
        yTestRead == Read(cs, node.id, "y_test", StepOutputVar(cs[yTestConn]))
    IN  IF ~hasPrediction /\ ~hasModel
        THEN WarningBlock(node, {"prediction", "model", "X_test", "y_test"})
        ELSE IF yTestConn = 0
        THEN WarningBlock(node, {"y_test"})
        ELSE IF hasPrediction
        THEN Block(node,
                   IF isRegression THEN "evaluateRegressionPrediction"
                   ELSE "evaluateClassificationPrediction",
                   {yTestRead,
                    Read(cs, node.id, "prediction", StepOutputVar(cs[predictionConn]))},
                   {metrics})
        ELSE Block(node,
                   IF isRegression THEN "evaluateRegressionModel"
                   ELSE "evaluateClassificationModel",
                   {yTestRead,
                    Read(cs, node.id, "model",
                         Field(StepName(cs[modelConn].source), "model")),
                    Read(cs, node.id, "X_test", StepOutputVar(cs[xTestConn]))},
                   {Lit("y_pred"), metrics})

\* case 'predict' that fills an unconnected input with a guessed name.
PredictBlockGuessing(node, cs) ==
    Block(node, "predict",
          {Read(cs, node.id, k,
                IF FindConn(cs, node.id, k) = 0 THEN Lit("data")
                ELSE StepOutputVar(cs[FindConn(cs, node.id, k)])) :
               k \in {"model", "X_test"}},
          {Field(StepName(node.id), "prediction")})

\* case 'predict'
PredictBlock(node, cs) ==
    IF Unconnected(cs, node.id, {"model", "X_test"}) # {}
    THEN WarningBlock(node, Unconnected(cs, node.id, {"model", "X_test"}))
    ELSE Block(node, "predict",
               {Read(cs, node.id, "model",
                     Field(StepName(cs[FindConn(cs, node.id, "model")].source), "model")),
                Read(cs, node.id, "X_test",
                     StepOutputVar(cs[FindConn(cs, node.id, "X_test")]))},
               {Field(StepName(node.id), "prediction")})

\* A scaler template that fits on the test data as well.
ScalerCallsFitOnBoth(form) ==
    IF form = "scaleTrainAndTest"
    THEN <<[method |-> "fit_transform", input |-> "X_train"],
           [method |-> "fit_transform", input |-> "X_test"]>>
    ELSE <<[method |-> "fit_transform", input |-> "X_train"]>>

\* The scaler methods the two scaler templates call, with the input whose
\* variable each is applied to, in statement order.
ScalerCalls(form) ==
    IF form = "scaleTrainAndTest"
    THEN <<[method |-> "fit_transform", input |-> "X_train"],
           [method |-> "transform", input |-> "X_test"]>>
    ELSE <<[method |-> "fit_transform", input |-> "X_train"]>>

\* The values of the algorithm dropdown of ClassifierNode and RegressorNode.
AlgorithmOptions(kind) ==
    CASE kind = "classifier" ->
            {"RandomForest", "LogisticRegression", "SVM", "DecisionTree", "KNN",
             "GradientBoosting"}
      [] kind = "regressor" ->
            {"LinearRegression", "Ridge", "Lasso", "RandomForestRegressor", "SVR",
             "GradientBoostingRegressor"}
      [] OTHER -> {}

\* node.controls?.algorithm || 'RandomForest' (classifier),
\* node.controls?.algorithm || 'LinearRegression' (regressor); "" stands for
\* an undefined control.
Algorithm(node) ==
    IF node.controls.algorithm # "" THEN node.controls.algorithm
    ELSE IF node.kind = "classifier" THEN "RandomForest"
    ELSE "LinearRegression"

\* The if-else chains without their final else: modelCode stays ''.
ModelCodeWithoutFallback(kind, algorithm) ==
    IF kind = "classifier"
    THEN CASE algorithm = "RandomForest" -> "RandomForestClassifier"
           [] algorithm = "LogisticRegression" -> "LogisticRegression"
           [] algorithm = "SVM" -> "SVC"
           [] algorithm = "DecisionTree" -> "DecisionTreeClassifier"
           [] algorithm = "KNN" -> "KNeighborsClassifier"
           [] algorithm = "GradientBoosting" -> "GradientBoostingClassifier"
           [] OTHER -> ""
    ELSE CASE algorithm = "LinearRegression" -> "LinearRegression"
           [] algorithm = "Ridge" -> "Ridge"
           [] algorithm = "Lasso" -> "Lasso"
           [] algorithm = "RandomForestRegressor" -> "RandomForestRegressor"
           [] algorithm = "SVR" -> "SVR"
           [] algorithm = "GradientBoostingRegressor" -> "GradientBoostingRegressor"
           [] OTHER -> ""

\* modelCode: the constructor the if-else chain of the classifier case or of
\* the regressor case picks for the algorithm.
ModelCode(kind, algorithm) ==
    IF kind = "classifier"
    THEN CASE algorithm = "RandomForest" -> "RandomForestClassifier"
           [] algorithm = "LogisticRegression" -> "LogisticRegression"
           [] algorithm = "SVM" -> "SVC"
           [] algorithm = "DecisionTree" -> "DecisionTreeClassifier"
           [] algorithm = "KNN" -> "KNeighborsClassifier"
           [] algorithm = "GradientBoosting" -> "GradientBoostingClassifier"
           [] OTHER -> "RandomForestClassifier"
    ELSE CASE algorithm = "LinearRegression" -> "LinearRegression"
           [] algorithm = "Ridge" -> "Ridge"
           [] algorithm = "Lasso" -> "Lasso"
           [] algorithm = "RandomForestRegressor" -> "RandomForestRegressor"
           [] algorithm = "SVR" -> "SVR"
           [] algorithm = "GradientBoostingRegressor" -> "GradientBoostingRegressor"
           [] OTHER -> "LinearRegression"

\* The classifier and the regressor template: the training block with the
\* constructor it calls and the algorithm name it prints.
ModelBlock(node, cs, form) ==
    LET block == TrainBlock(node, cs, form, {Field(StepName(node.id), "model")})
    IN  IF block.form = "warning" THEN block
        ELSE [ctor |-> ModelCode(node.kind, Algorithm(node)),
              trained |-> Algorithm(node)] @@ block

\* nodeToCode(node, connections, nodeMap, varName, varNameMap): ns stands for
\* nodeMap and the schedule sorted for varNameMap.
NodeToCode(node, cs, ns, varName, sorted) ==
    CASE node.kind = "dataLoader" ->
            IF storage
            THEN Block(node, "loadEmbedded", {}, {Lit("csv_content"), varName})
            ELSE Block(node, "load", {}, {varName})
      [] node.kind = "dataSplit" ->
            Block(node, "split",
                  {Read(cs, node.id, "data", GetSourceVarName(cs, sorted, node.id, "data"))},
                  {Lit("X_all"), Lit("y_all"), Field(varName, "X_train"),
                   Field(varName, "X_test"), Field(varName, "y_train"),
                   Field(varName, "y_test")})
      [] node.kind = "scaler" ->
            IF FindConn(cs, node.id, "X_test") # 0
            THEN Block(node, "scaleTrainAndTest",
                       {Read(cs, node.id, "X_train",
                             GetSourceOutputVar(cs, sorted, node.id, "X_train")),
                        Read(cs, node.id, "X_test",
                             GetSourceOutputVar(cs, sorted, node.id, "X_test"))},
                       {varName, Field(varName, "X_train"), Field(varName, "X_test")})
            ELSE Block(node, "scaleTrainOnly",
                       {Read(cs, node.id, "X_train",
                             GetSourceOutputVar(cs, sorted, node.id, "X_train"))},
                       {varName, Field(varName, "X_train")})
      [] node.kind = "featureSelection" ->
            TrainBlock(node, cs, "featureSelection",
                       {varName, Field(StepName(node.id), "X_train")})
      [] node.kind = "classifier" -> ModelBlock(node, cs, "trainClassifier")
      [] node.kind = "regressor" -> ModelBlock(node, cs, "trainRegressor")
      [] node.kind = "neuralNet" ->
            TrainBlock(node, cs, "trainNeuralNet", {Field(StepName(node.id), "model")})
      [] node.kind = "evaluate" -> EvaluateBlock(node, cs, ns)
      [] node.kind = "predict" -> PredictBlock(node, cs)
      [] node.kind = "hyperparamTune" ->
            TrainBlock(node, cs, "hyperparamTune",
                       {Lit("param_grid"), Lit("grid_search"),
                        Field(StepName(node.id), "model")})
      [] OTHER -> Block(node, "unknown", {}, {})

\* ------------------------------------------------------ generatePythonCode
\* What a compile call hands back: thrown (error) or returned (blocks), with
\* the functions it called, in call order.
Thrown(error, calls) ==
    [status |-> "error", error |-> error, calls |-> calls,
     sorted |-> <<>>, names |-> <<>>, blocks |-> <<>>]

Returned(calls, sorted, names, blocks) ==
    [status |-> "ok", error |-> NoError, calls |-> calls,
     sorted |-> sorted, names |-> names, blocks |-> blocks]

\* ---------------------------------------------------------- generateImports
\* The import lines the switch adds for a node of the kind, in adding order.
ImportLines(kind) ==
    CASE kind = "dataSplit" ->
            <<"from sklearn.model_selection import train_test_split">>
      [] kind = "scaler" ->
            <<"from sklearn.preprocessing import StandardScaler, MinMaxScaler, RobustScaler, MaxAbsScaler">>
      [] kind = "featureSelection" ->
            <<"from sklearn.feature_selection import SelectKBest, f_classif">>
      [] kind = "classifier" ->
            <<"from sklearn.ensemble import RandomForestClassifier, GradientBoostingClassifier",
              "from sklearn.linear_model import LogisticRegression",
              "from sklearn.svm import SVC",
              "from sklearn.tree import DecisionTreeClassifier",
              "from sklearn.neighbors import KNeighborsClassifier">>
      [] kind = "regressor" ->
            <<"from sklearn.linear_model import LinearRegression, Ridge, Lasso",
              "from sklearn.ensemble import RandomForestRegressor, GradientBoostingRegressor",
              "from sklearn.svm import SVR">>
      [] kind = "neuralNet" ->
            <<"from sklearn.neural_network import MLPClassifier">>
      [] kind = "evaluate" ->
            <<"from sklearn.metrics import accuracy_score, classification_report, confusion_matrix",
              "from sklearn.metrics import mean_absolute_error, mean_squared_error, r2_score">>
      [] kind = "hyperparamTune" ->
            <<"from sklearn.model_selection import GridSearchCV">>
      [] OTHER -> <<>>

\* The lines added before the loop over the nodes.
LeadingImports(ns) ==
    <<"import pandas as pd", "import numpy as np">>
        \o (IF \E i \in DOMAIN ns : ns[i].kind = "dataLoader"
            THEN <<"import io", "import base64">> ELSE <<>>)

\* Every imports.add of nodes.forEach, in call order.
RECURSIVE AddedImports(_)
AddedImports(ns) ==
    IF ns = <<>> THEN <<>>
    ELSE ImportLines(Head(ns).kind) \o AddedImports(Tail(ns))

\* generateImports that keeps every added line.
GenerateImportsRepeating(ns) == LeadingImports(ns) \o AddedImports(ns)

\* generateImports(nodes): Array.from(imports), the Set keeping each line at
\* its first insertion.
GenerateImports(ns) == Dedup(LeadingImports(ns) \o AddedImports(ns))

\* generatePythonCode that runs the gate but goes on when it fails.
GenerateDespiteGate(ns, cs) ==
    LET mlNodes == SelectSeq(ns, LAMBDA n : n.kind \in MLKinds)
        error == ValidatePipelineStructure(mlNodes, cs)
        sortedNodes == TopologicalSort(mlNodes, cs)
        names == [i \in DOMAIN sortedNodes |-> SimpleVarName(sortedNodes, i)]
        codeBlocks ==
            [i \in DOMAIN sortedNodes |->
                NodeToCode(sortedNodes[i], cs, mlNodes,
                           VarNameOf(sortedNodes, sortedNodes[i].id), sortedNodes)]
    IN  IF Len(ns) = 0
        THEN Thrown(ValidationError("noNodes", <<>>, {}), <<>>)
        ELSE IF Len(mlNodes) = 0
        THEN Thrown(ValidationError("noMLNodes", <<>>, {}), <<>>)
        ELSE [Returned(<<"validatePipelineStructure", "topologicalSort">>
                          \o [i \in DOMAIN sortedNodes |-> "getSimpleVarName"]
                          \o <<"generateImports">>
                          \o [i \in DOMAIN sortedNodes |-> "nodeToCode"],
                      NodeIds(sortedNodes), names, codeBlocks)
              EXCEPT !.error = error]

GeneratePythonCode(ns, cs) ==
    LET mlNodes == SelectSeq(ns, LAMBDA n : n.kind \in MLKinds)
        error == ValidatePipelineStructure(mlNodes, cs)
        sortedNodes == TopologicalSort(mlNodes, cs)
        names == [i \in DOMAIN sortedNodes |-> SimpleVarName(sortedNodes, i)]
        codeBlocks ==
            [i \in DOMAIN sortedNodes |->
                NodeToCode(sortedNodes[i], cs, mlNodes,
                           VarNameOf(sortedNodes, sortedNodes[i].id), sortedNodes)]
    IN  IF Len(ns) = 0
        THEN Thrown(ValidationError("noNodes", <<>>, {}), <<>>)
        ELSE IF Len(mlNodes) = 0
        THEN Thrown(ValidationError("noMLNodes", <<>>, {}), <<>>)
        ELSE IF error # NoError
        THEN Thrown(error, <<"validatePipelineStructure">>)
        ELSE [imports |-> GenerateImports(mlNodes)]
             @@ Returned(<<"validatePipelineStructure", "topologicalSort">>
                             \o [i \in DOMAIN sortedNodes |-> "getSimpleVarName"]
                             \o <<"generateImports">>
                             \o [i \in DOMAIN sortedNodes |-> "nodeToCode"],
                         NodeIds(sortedNodes), names, codeBlocks)

\* generateJupyterNotebook and generatePythonScript call generatePythonCode
\* first; what it throws passes through them.
\* The number of parts of a block's text between blank lines: the embedded
\* loader template and the predict template hold one blank line each.
Paragraphs(block) == IF block.form \in {"loadEmbedded", "predict"} THEN 2 ELSE 1

Section(part, node, piece) == [part |-> part, node |-> node, piece |-> piece]

\* The parts of all blocks, in text order.
RECURSIVE BlockSections(_)
BlockSections(blocks) ==
    IF blocks = <<>> THEN <<>>
    ELSE [k \in 1..Paragraphs(Head(blocks)) |-> Section("block", Head(blocks).id, k)]
             \o BlockSections(Tail(blocks))

\* A text of the imports and the blocks alone, every block in one piece.
SectionsOfBlocksOnly(blocks) ==
    <<Section("imports", <<>>, 1)>>
        \o [i \in DOMAIN blocks |-> Section("block", blocks[i].id, 1)]

\* pythonCode.split('\n\n') of the text generatePythonCode assembles: the
\* imports, the heading banner, the blocks joined by blank lines and the
\* closing banner.
Sections(blocks) ==
    <<Section("imports", <<>>, 1), Section("heading", <<>>, 1)>>
        \o BlockSections(blocks)
        \o <<Section("complete", <<>>, 1)>>

\* cells: the markdown cell, then one code cell per section.
NotebookCells(blocks) ==
    LET sections == Sections(blocks)
    IN  <<[cell_type |-> "markdown", source |-> Section("title", <<>>, 1)]>>
            \o [i \in DOMAIN sections |-> [cell_type |-> "code", source |-> sections[i]]]

GenerateJupyterNotebook(ns, cs) ==
    LET pythonCode == GeneratePythonCode(ns, cs)
    IN  IF pythonCode.status = "error" THEN pythonCode
        ELSE [cells |-> NotebookCells(pythonCode.blocks)] @@ pythonCode

GeneratePythonScript(ns, cs) == GeneratePythonCode(ns, cs)

\* ---------------------------------------- validatePipeline (batch validation)
\* n.id || `node-${n.step}`: a pipeline node without id (held as <<>>) is
\* known by its step.
PipelineNodeId(n) ==
    IF n.id # <<>> THEN n.id ELSE <<"n", "o", "d", "e", "-", Digit(n.step)>>

PipelineNodeIds(p) == [i \in DOMAIN p.nodes |-> PipelineNodeId(p.nodes[i])]

\* Keys of the adjacency Map in insertion order: the node ids, then every
\* connection source that is no node id (graph.set creates the key).
GraphKeys(p) ==
    Dedup(PipelineNodeIds(p) \o [i \in DOMAIN p.connections |-> p.connections[i].source])

\* graph.get(nodeId) || []
Targets(p, nodeId) ==
    LET out == SelectSeq(p.connections, LAMBDA c : c.source = nodeId)
    IN  [i \in DOMAIN out |-> out[i].target]

\* hasCycle(nodeId, visited, recStack) and its for loop over the neighbours.
\* st = [visited, recStack, calls]; the result adds found (the return value).
RECURSIVE HasCycle(_, _, _)
RECURSIVE VisitNeighbors(_, _, _, _)
HasCycle(p, nodeId, st) ==
    VisitNeighbors(p, nodeId, Targets(p, nodeId),
                   [visited |-> st.visited \cup {nodeId},
                    recStack |-> st.recStack \cup {nodeId},
                    calls |-> st.calls + 1])

\* The neighbour loop without recStack.delete(nodeId) at its end.
RECURSIVE VisitNeighborsKeepStack(_, _, _, _)
VisitNeighborsKeepStack(p, nodeId, neighbors, st) ==
    IF neighbors = <<>>
    THEN [found |-> FALSE, visited |-> st.visited,
          recStack |-> st.recStack, calls |-> st.calls]
    ELSE LET neighbor == Head(neighbors)
             below == HasCycle(p, neighbor, st)
         IN  IF neighbor \notin st.visited
             THEN IF below.found THEN below
                  ELSE VisitNeighborsKeepStack(p, nodeId, Tail(neighbors),
                                               [visited |-> below.visited,
                                                recStack |-> below.recStack,
                                                calls |-> below.calls])
             ELSE IF neighbor \in st.recStack
             THEN [found |-> TRUE, visited |-> st.visited,
                   recStack |-> st.recStack, calls |-> st.calls]
             ELSE VisitNeighborsKeepStack(p, nodeId, Tail(neighbors), st)

VisitNeighbors(p, nodeId, neighbors, st) ==
    IF neighbors = <<>>
    THEN [found |-> FALSE, visited |-> st.visited,
          recStack |-> st.recStack \ {nodeId}, calls |-> st.calls]
    ELSE LET neighbor == Head(neighbors)
             below == HasCycle(p, neighbor, st)
         IN  IF neighbor \notin st.visited
             THEN IF below.found THEN below
                  ELSE VisitNeighbors(p, nodeId, Tail(neighbors),
                                      [visited |-> below.visited,
                                       recStack |-> below.recStack,
                                       calls |-> below.calls])
             ELSE IF neighbor \in st.recStack
             THEN [found |-> TRUE, visited |-> st.visited,
                   recStack |-> st.recStack, calls |-> st.calls]
             ELSE VisitNeighbors(p, nodeId, Tail(neighbors), st)

\* for (const nodeId of graph.keys()) { if (!visited.has(nodeId)) ... break }
RECURSIVE CycleSearch(_, _, _)
CycleSearch(p, keys, st) ==
    IF keys = <<>>
    THEN [found |-> FALSE, visited |-> st.visited, recStack |-> st.recStack,
          calls |-> st.calls]
    ELSE IF Head(keys) \in st.visited THEN CycleSearch(p, Tail(keys), st)
    ELSE LET r == HasCycle(p, Head(keys), st)
         IN  IF r.found THEN r
             ELSE CycleSearch(p, Tail(keys),
                              [visited |-> r.visited, recStack |-> r.recStack,
                               calls |-> r.calls])

DetectCycle(p) ==
    CycleSearch(p, GraphKeys(p), [visited |-> {}, recStack |-> {}, calls |-> 0])

\* validatePipeline that looks for duplicates among the n.id fields alone.
ValidatePipelineRawIds(p) ==
    LET hasDataLoader == \E i \in DOMAIN p.nodes : p.nodes[i].kind = "dataLoader"
        nodeIds == [i \in DOMAIN p.nodes |-> p.nodes[i].id]
    IN  IF Len(p.nodes) = 0 THEN <<"noNodes">>
        ELSE (IF ~hasDataLoader THEN <<"noDataLoader">> ELSE <<>>)
             \o (IF DetectCycle(p).found THEN <<"cycle">> ELSE <<>>)
             \o (IF Len(nodeIds) # Cardinality(Range(nodeIds)) THEN <<"duplicateId">>
                 ELSE <<>>)

\* validatePipeline that returns at its first error.
ValidatePipelineFailFast(p) ==
    LET hasDataLoader == \E i \in DOMAIN p.nodes : p.nodes[i].kind = "dataLoader"
        nodeIds == PipelineNodeIds(p)
    IN  IF Len(p.nodes) = 0 THEN <<"noNodes">>
        ELSE IF ~hasDataLoader THEN <<"noDataLoader">>
        ELSE IF DetectCycle(p).found THEN <<"cycle">>
        ELSE IF Len(nodeIds) # Cardinality(Range(nodeIds)) THEN <<"duplicateId">>
        ELSE <<>>

\* validatePipeline(pipeline): the errors array it returns.
ValidatePipeline(p) ==
    LET hasDataLoader == \E i \in DOMAIN p.nodes : p.nodes[i].kind = "dataLoader"
        nodeIds == PipelineNodeIds(p)
    IN  IF Len(p.nodes) = 0 THEN <<"noNodes">>
        ELSE (IF ~hasDataLoader THEN <<"noDataLoader">> ELSE <<>>)
             \o (IF DetectCycle(p).found THEN <<"cycle">> ELSE <<>>)
             \o (IF Len(nodeIds) # Cardinality(Range(nodeIds)) THEN <<"duplicateId">>
                 ELSE <<>>)

\* ------------------------------------------------------------- the editor
\* The kinds of node the model's user drops on the canvas.
Palette == {"dataLoader", "dataSplit", "scaler", "classifier", "evaluate", "predict"}

\* The connections the model's user draws: between equally named sockets (the
\* documented socket colours).  The editor itself compares socket type names,
\* which are all 'number', and refuses none of them.
Plugs(source, target) ==
    {<<o, i>> \in Outputs(source.kind) \X Inputs(target.kind) : o = i}

Connection(source, sourceOutput, target, targetInput) ==
    [source |-> source, sourceOutput |-> sourceOutput,
     target |-> target, targetInput |-> targetInput]

NoOutcome == [op |-> "none"] @@ Thrown(NoError, <<>>)

Outcome(op, result) == [op |-> op] @@ result

NoPipeline == [nodes |-> <<>>, connections |-> <<>>]

NotValidated == [done |-> FALSE, errors |-> <<>>, dfsCalls |-> 0]

\* The transform of a new area: no zoom, no pan.
InitialTransform == [k |-> 1, x |-> 0, y |-> 0]

\* A logic without data.graph: importGraph returns at once.
NoGraph == [nodes |-> <<>>, connections |-> <<>>, undefined |-> TRUE]

\* useState(''): no text stored yet.
NoCode == [status |-> "empty"]

Init ==
    /\ nodes = <<>>
    /\ connections = <<>>
    /\ outcome = NoOutcome
    /\ pipeline = NoPipeline
    /\ validation = NotValidated
    /\ storage = FALSE
    /\ viewport = InitialTransform
    /\ generatedCode = NoCode
    /\ showCodePreview = FALSE
    /\ saved = NoGraph

\* editor.addNode(createNodeByKind(kind))
AddNode(kind) ==
    /\ Len(nodes) < MaxNodes
    /\ NextUid(nodes) <= MaxUid
    /\ nodes' = Append(nodes, [id |-> NodeId(NextUid(nodes)), kind |-> kind])
    /\ outcome' = NoOutcome
    /\ UNCHANGED <<connections, pipeline, validation, storage, viewport,
                 generatedCode, showCodePreview, saved>>

\* editor.addConnection(new ClassicPreset.Connection(source, so, target, ti))
AddConnection(s, t, plug) ==
    /\ Len(connections) < MaxConns
    /\ connections' = Append(connections,
                             Connection(nodes[s].id, plug[1], nodes[t].id, plug[2]))
    /\ outcome' = NoOutcome
    /\ UNCHANGED <<nodes, pipeline, validation, storage, viewport,
                 generatedCode, showCodePreview, saved>>

\* The value exportGraph reads from a node's algorithm control: the one set
\* on the node, else the initial value of the SelectControl ("": the node
\* class has no such control).
ControlValues(n) ==
    [algorithm |-> IF "controls" \in DOMAIN n THEN n.controls.algorithm
                   ELSE IF n.kind = "classifier" THEN "RandomForest"
                   ELSE IF n.kind = "regressor" THEN "LinearRegression"
                   ELSE ""]

\* exportGraph(editor, area): a new object holding a new record per node (its
\* position taken from the node view, { x: 0, y: 0 } without one), a new
\* record per connection, and the viewport.
ExportGraph ==
    [nodes |-> [i \in DOMAIN nodes |->
                   [id |-> nodes[i].id, label |-> Label(nodes[i].kind),
                    kind |-> nodes[i].kind,
                    position |-> IF "position" \in DOMAIN nodes[i]
                                 THEN nodes[i].position ELSE [x |-> 0, y |-> 0],
                    controls |-> ControlValues(nodes[i])]],
     connections |-> connections,
     viewport |-> viewport]

\* The graph object as a compile call leaves it: the call that sorts its
\* node array in place.
GraphLeftSorted(graph) ==
    [graph EXCEPT !.nodes = TopologicalSort(graph.nodes, graph.connections)]

\* The graph object as generatePythonCode(graph) leaves it, returning or
\* throwing: it reads the arrays with filter, some, map, find and forEach and
\* writes to none of them nor to a node or a connection.
GraphLeft(graph) == graph

\* exportGraph's node as validatePipeline reads it (id and kind; no step).
ExportedPipeline ==
    [nodes |-> [i \in DOMAIN nodes |-> [id |-> nodes[i].id, step |-> 0,
                                        kind |-> nodes[i].kind]],
     connections |-> connections]

\* The outcome of a preview that validatePipeline refused: a toast with the
\* errors, generatePythonCode not called.
Refused(errors) ==
    Outcome("validatePipeline",
            Thrown(ValidationError("batch", errors, {}), <<>>))

\* handleGenerateCode that empties the stored text and closes the preview when
\* a step fails.
PreviewCodeResetOnFailure ==
    /\ outcome.op \notin {"generatePythonCode", "validatePipeline"}
    /\ LET graph == ExportGraph
           validationErrors == ValidatePipeline(ExportedPipeline)
           code == GeneratePythonCode(graph.nodes, graph.connections)
       IN  IF Len(validationErrors) > 0
           THEN /\ outcome' = Refused(validationErrors)
                /\ generatedCode' = NoCode
                /\ showCodePreview' = FALSE
           ELSE /\ outcome' = [graph |-> GraphLeft(graph)]
                                  @@ Outcome("generatePythonCode", code)
                /\ IF code.status = "ok"
                   THEN /\ generatedCode' = code
                        /\ showCodePreview' = TRUE
                   ELSE /\ generatedCode' = NoCode
                        /\ showCodePreview' = FALSE
    /\ UNCHANGED <<nodes, connections, pipeline, validation, storage, viewport, saved>>

\* handleGenerateCode (code preview): validatePipeline(exportGraph(editor)),
\* then generatePythonCode(graph) when it found nothing, then
\* setGeneratedCode(code) and setShowCodePreview(true) when it returned.
PreviewCode ==
    /\ outcome.op \notin {"generatePythonCode", "validatePipeline"}
    /\ LET graph == ExportGraph
           validationErrors == ValidatePipeline(ExportedPipeline)
           code == GeneratePythonCode(graph.nodes, graph.connections)
       IN  IF Len(validationErrors) > 0
           THEN /\ outcome' = Refused(validationErrors)
                /\ UNCHANGED <<generatedCode, showCodePreview>>
           ELSE /\ outcome' = [graph |-> GraphLeft(graph)]
                                  @@ Outcome("generatePythonCode", code)
                /\ IF code.status = "ok"
                   THEN /\ generatedCode' = code
                        /\ showCodePreview' = TRUE
                   ELSE UNCHANGED <<generatedCode, showCodePreview>>
    /\ UNCHANGED <<nodes, connections, pipeline, validation, storage, viewport, saved>>

\* handleExportJupyter: generateJupyterNotebook(exportGraph(editor), name)
ExportJupyter ==
    /\ outcome.op # "generateJupyterNotebook"
    /\ LET graph == ExportGraph
       IN  outcome' = [graph |-> GraphLeft(graph)]
                          @@ Outcome("generateJupyterNotebook",
                                     GenerateJupyterNotebook(graph.nodes, graph.connections))
    /\ UNCHANGED <<nodes, connections, pipeline, validation, storage, viewport,
                 generatedCode, showCodePreview, saved>>

\* handleExportPython: generatePythonScript(exportGraph(editor), name)
ExportPython ==
    /\ outcome.op # "generatePythonScript"
    /\ LET graph == ExportGraph
       IN  outcome' = [graph |-> GraphLeft(graph)]
                          @@ Outcome("generatePythonScript",
                                     GeneratePythonScript(graph.nodes, graph.connections))
    /\ UNCHANGED <<nodes, connections, pipeline, validation, storage, viewport,
                 generatedCode, showCodePreview, saved>>

Next ==
    \/ \E kind \in Palette : AddNode(kind)
    \/ \E s \in DOMAIN nodes, t \in DOMAIN nodes :
          \E plug \in Plugs(nodes[s], nodes[t]) : AddConnection(s, t, plug)
    \/ PreviewCode
    \/ ExportJupyter
    \/ ExportPython

Spec == Init /\ [][Next]_vars

\* ------------------------------------------------------ proposed pipelines
\* The nodes and connection endpoints a proposed pipeline is made of: a node
\* with an id, nodes without one (known by their step), with or without a
\* data loader among them.
ProposedNodes ==
    {[id |-> n[1], step |-> n[2], kind |-> k] :
        n \in {<<<<"a">>, 1>>, <<<<>>, 1>>, <<<<>>, 2>>}, k \in {"dataLoader", "scaler"}}

ProposedEndpoints == {<<"a">>, PipelineNodeId([id |-> <<>>, step |-> 1]),
                      PipelineNodeId([id |-> <<>>, step |-> 2])}

ProposedConnections ==
    {Connection(s, "X_train", t, "X_train") : s \in ProposedEndpoints, t \in ProposedEndpoints}

SeqsUpTo(S, n) == UNION {[1..k -> S] : k \in 0..n}

Proposals ==
    {[nodes |-> ns, connections |-> cs] :
        ns \in SeqsUpTo(ProposedNodes, MaxPipelineNodes),
        cs \in SeqsUpTo(ProposedConnections, MaxPipelineConns)}

InitBatch ==
    /\ nodes = <<>>
    /\ connections = <<>>
    /\ outcome = NoOutcome
    /\ pipeline \in Proposals
    /\ validation = NotValidated
    /\ storage = FALSE
    /\ viewport = InitialTransform
    /\ generatedCode = NoCode
    /\ showCodePreview = FALSE
    /\ saved = NoGraph

\* validatePipeline(pipeline) applied to the proposal, with the number of
\* hasCycle calls it made.
ValidateProposal ==
    /\ ~validation.done
    /\ validation' = [done |-> TRUE, errors |-> ValidatePipeline(pipeline),
                      dfsCalls |-> IF Len(pipeline.nodes) = 0 THEN 0
                                   ELSE DetectCycle(pipeline).calls]
    /\ UNCHANGED <<nodes, connections, outcome, pipeline, storage, viewport,
                 generatedCode, showCodePreview, saved>>

NextBatch == ValidateProposal

SpecBatch == InitBatch /\ [][NextBatch]_vars

\* ------------------------------------------------- applyPipelineToCanvas
\* Object.keys(node.inputs) / Object.keys(node.outputs): the socket keys in
\* the order the node class declares them.
InputKeys(kind) ==
    CASE kind = "dataSplit" -> <<"data">>
      [] kind = "scaler" -> <<"X_train", "X_test">>
      [] kind = "evaluate" -> <<"model", "X_test", "y_test", "prediction">>
      [] kind = "predict" -> <<"model", "X_test">>
      [] kind \in {"featureSelection", "classifier", "regressor", "neuralNet",
                   "hyperparamTune"} -> <<"X_train", "y_train">>
      [] OTHER -> <<>>

OutputKeys(kind) ==
    CASE kind = "dataLoader" -> <<"data">>
      [] kind = "dataSplit" -> <<"X_train", "y_train", "X_test", "y_test">>
      [] kind = "scaler" -> <<"X_train", "X_test">>
      [] kind = "featureSelection" -> <<"X_train">>
      [] kind \in {"classifier", "regressor", "neuralNet", "hyperparamTune"} -> <<"model">>
      [] kind = "predict" -> <<"prediction">>
      [] OTHER -> <<>>

\* String.toLowerCase on socket names.
ToLowerCase(name) ==
    CASE name = "X_train" -> "x_train"
      [] name = "X_test" -> "x_test"
      [] OTHER -> name

\* getSocketKey: the first declared key that equals socketName ignoring case
\* ("" stands for undefined).
GetSocketKey(keys, socketName) ==
    LET hits == SelectSeq(keys, LAMBDA k : ToLowerCase(k) = ToLowerCase(socketName))
    IN  IF hits = <<>> THEN "" ELSE hits[1]

\* connectionExists + tryAddConnection: editor.addConnection unless the same
\* connection is already there.
TryAddConnection(cs, source, sourceOutput, target, targetInput) ==
    LET con == Connection(source, sourceOutput, target, targetInput)
    IN  IF \E i \in DOMAIN cs : cs[i] = con THEN cs ELSE Append(cs, con)

\* The nodes the first loop adds to an editor holding ns: one per pipeline
\* node, with a fresh editor id, up to the first kind createNodeByKind throws on.
UnknownKinds(p) == {i \in DOMAIN p.nodes : p.nodes[i].kind \notin MLKinds}

CreatedNodes(p, ns) ==
    LET stop == IF UnknownKinds(p) = {} THEN Len(p.nodes) + 1
                ELSE CHOOSE i \in UnknownKinds(p) : \A j \in UnknownKinds(p) : i <= j
    IN  [i \in 1..(stop - 1) |->
            [id |-> NodeId(NextUid(ns) + i - 1), kind |-> p.nodes[i].kind]]

\* nodeMap.get(originalId): the node created last for that id, [id |-> <<>>]
\* when there is none.
NodeMapGet(p, ns, originalId) ==
    LET hits == {i \in DOMAIN p.nodes : PipelineNodeId(p.nodes[i]) = originalId}
    IN  IF hits = {} THEN [id |-> <<>>, kind |-> ""]
        ELSE CreatedNodes(p, ns)[CHOOSE i \in hits : \A j \in hits : j <= i]

\* The loop that passes the socket names of the pipeline on as they are.
RECURSIVE ConnectAsNamed(_, _, _, _)
ConnectAsNamed(p, ns, conns, cs) ==
    IF conns = <<>> THEN cs
    ELSE LET conn == Head(conns)
             sourceNode == NodeMapGet(p, ns, conn.source)
             targetNode == NodeMapGet(p, ns, conn.target)
         IN  IF sourceNode.id = <<>> \/ targetNode.id = <<>>
             THEN ConnectAsNamed(p, ns, Tail(conns), cs)
             ELSE ConnectAsNamed(p, ns, Tail(conns),
                                 TryAddConnection(cs, sourceNode.id, conn.sourceOutput,
                                                  targetNode.id, conn.targetInput))

\* for (const conn of connections): skip a connection naming a missing node
\* or socket, otherwise tryAddConnection.
RECURSIVE ConnectAsProposed(_, _, _, _)
ConnectAsProposed(p, ns, conns, cs) ==
    IF conns = <<>> THEN cs
    ELSE LET conn == Head(conns)
             sourceNode == NodeMapGet(p, ns, conn.source)
             targetNode == NodeMapGet(p, ns, conn.target)
             outputKey == GetSocketKey(OutputKeys(sourceNode.kind), conn.sourceOutput)
             inputKey == GetSocketKey(InputKeys(targetNode.kind), conn.targetInput)
         IN  IF sourceNode.id = <<>> \/ targetNode.id = <<>>
             THEN ConnectAsProposed(p, ns, Tail(conns), cs)
             ELSE IF outputKey = "" \/ inputKey = ""
             THEN ConnectAsProposed(p, ns, Tail(conns), cs)
             ELSE ConnectAsProposed(p, ns, Tail(conns),
                                    TryAddConnection(cs, sourceNode.id, outputKey,
                                                     targetNode.id, inputKey))

\* No connections given: join each created node to the next, first output to
\* first input, when both exist.
RECURSIVE ConnectInOrder(_, _, _)
ConnectInOrder(nodeArr, i, cs) ==
    IF i >= Len(nodeArr) THEN cs
    ELSE LET srcOut == OutputKeys(nodeArr[i].kind)
             dstIn == InputKeys(nodeArr[i + 1].kind)
         IN  IF srcOut # <<>> /\ dstIn # <<>>
             THEN ConnectInOrder(nodeArr, i + 1,
                                 TryAddConnection(cs, nodeArr[i].id, srcOut[1],
                                                  nodeArr[i + 1].id, dstIn[1]))
             ELSE ConnectInOrder(nodeArr, i + 1, cs)

\* applyPipelineToCanvas without its call of validatePipeline.
ApplyUnvalidated(p, ns, cs) ==
    LET created == CreatedNodes(p, ns)
        keys == Dedup(PipelineNodeIds(p))
        nodeArr == [i \in DOMAIN keys |-> NodeMapGet(p, ns, keys[i])]
    IN  IF UnknownKinds(p) # {}
        THEN [errors |-> <<>>, status |-> "error",
              nodes |-> ns \o created, connections |-> cs]
        ELSE [errors |-> <<>>, status |-> "ok",
              nodes |-> ns \o created,
              connections |-> IF Len(p.connections) > 0
                              THEN ConnectAsProposed(p, ns, p.connections, cs)
                              ELSE ConnectInOrder(nodeArr, 1, cs)]

\* applyPipelineToCanvas(pipeline) on an editor holding ns and cs: the errors
\* it shows and the nodes and connections the editor holds afterwards.
ApplyPipeline(p, ns, cs) ==
    LET validationErrors == ValidatePipeline(p)
    IN  IF Len(validationErrors) > 0
        THEN [errors |-> validationErrors, status |-> "refused",
              nodes |-> ns, connections |-> cs]
        ELSE ApplyUnvalidated(p, ns, cs)

\* The canvases a proposal arrives on: empty, or already holding a node.
Canvases == {<<>>, <<[id |-> NodeId(1), kind |-> "dataLoader"]>>}

InitApply ==
    /\ nodes \in Canvases
    /\ connections = <<>>
    /\ outcome = NoOutcome
    /\ pipeline \in Proposals
    /\ validation = NotValidated
    /\ storage = FALSE
    /\ viewport = InitialTransform
    /\ generatedCode = NoCode
    /\ showCodePreview = FALSE
    /\ saved = NoGraph

ApplyPipelineToCanvas ==
    /\ outcome.op = "none"
    /\ LET applied == ApplyPipeline(pipeline, nodes, connections)
       IN  /\ nodes' = applied.nodes
           /\ connections' = applied.connections
           /\ outcome' = Outcome("applyPipelineToCanvas",
                                 IF applied.status = "ok"
                                 THEN Returned(<<>>, <<>>, <<>>, <<>>)
                                 ELSE Thrown(ValidationError(applied.status,
                                                             applied.errors, {}), <<>>))
    /\ UNCHANGED <<pipeline, validation, storage, viewport,
                 generatedCode, showCodePreview, saved>>

NextApply == ApplyPipelineToCanvas

SpecApply == InitApply /\ [][NextApply]_vars

\* ------------------------------------------------------------ importGraph
\* labelToKind: the kind a label of an older save stands for ("": undefined).
LabelToKind(label) ==
    IF \E kind \in MLKinds : Label(kind) = label
    THEN CHOOSE kind \in MLKinds : Label(kind) = label
    ELSE ""

\* n.kind || labelToKind(n.label)
SavedKind(n) == IF n.kind # "" THEN n.kind ELSE LabelToKind(n.label)

\* The saved nodes a node is created for: those with a kind createNodeByKind
\* knows (the others are skipped with a warning).
ImportableNodes(graph) == SelectSeq(graph.nodes, LAMBDA n : SavedKind(n) \in MLKinds)

\* The control values of a created node after the saved ones were set on the
\* controls its class has.
RestoredControls(kind, values) ==
    [algorithm |-> IF kind \notin {"classifier", "regressor"} THEN ""
                   ELSE IF values.algorithm # "" THEN values.algorithm
                   ELSE IF kind = "classifier" THEN "RandomForest"
                   ELSE "LinearRegression"]

\* The first loop that creates the nodes newest first.
ImportedNodesReversed(graph, ns) ==
    LET importable == Reverse(ImportableNodes(graph))
    IN  [i \in DOMAIN importable |->
            [id |-> NodeId(NextUid(ns) + i - 1),
             kind |-> SavedKind(importable[i]),
             position |-> importable[i].position,
             controls |-> RestoredControls(SavedKind(importable[i]),
                                           importable[i].controls)]]

\* The first loop: createNodeByKind, the controls, editor.addNode and the
\* translation of the node view, per importable node in saved order.  ns: the
\* nodes of the editor before editor.clear().
ImportedNodes(graph, ns) ==
    LET importable == ImportableNodes(graph)
    IN  [i \in DOMAIN importable |->
            [id |-> NodeId(NextUid(ns) + i - 1),
             kind |-> SavedKind(importable[i]),
             position |-> importable[i].position,
             controls |-> RestoredControls(SavedKind(importable[i]),
                                           importable[i].controls)]]

\* idMap.get(savedId): the node created last for a saved node with that id,
\* [id |-> <<>>] when there is none.
IdMapGet(graph, ns, savedId) ==
    LET importable == ImportableNodes(graph)
        hits == {i \in DOMAIN importable : importable[i].id = savedId}
    IN  IF hits = {} THEN [id |-> <<>>, kind |-> ""]
        ELSE ImportedNodes(graph, ns)[CHOOSE i \in hits : \A j \in hits : j <= i]

\* The second loop: per saved connection whose two nodes were created,
\* new ClassicPreset.Connection(source, sourceOutput, target, targetInput),
\* whose constructor throws when the source has no such output or the target
\* no such input, and editor.addConnection.  st = [connections, thrown].
RECURSIVE ImportConnections(_, _, _, _)
ImportConnections(graph, ns, cons, st) ==
    IF cons = <<>> \/ st.thrown THEN st
    ELSE LET con == Head(cons)
             source == IdMapGet(graph, ns, con.source)
             target == IdMapGet(graph, ns, con.target)
         IN  IF source.id = <<>> \/ target.id = <<>>
             THEN ImportConnections(graph, ns, Tail(cons), st)
             ELSE IF con.sourceOutput \notin Outputs(source.kind)
                     \/ con.targetInput \notin Inputs(target.kind)
             THEN [st EXCEPT !.thrown = TRUE]
             ELSE ImportConnections(graph, ns, Tail(cons),
                      [st EXCEPT !.connections =
                          Append(@, Connection(source.id, con.sourceOutput,
                                               target.id, con.targetInput))])

\* importGraph(editor, area, graph) on an editor holding ns: what the editor
\* and the area hold afterwards, and whether the call threw.
ImportGraph(graph, ns, transform) ==
    LET made == ImportConnections(graph, ns, graph.connections,
                                  [connections |-> <<>>, thrown |-> FALSE])
    IN  [nodes |-> ImportedNodes(graph, ns),
         connections |-> made.connections,
         viewport |-> IF made.thrown THEN transform ELSE graph.viewport,
         status |-> IF made.thrown THEN "error" ELSE "ok"]

\* handleSave: onSave({ data: { graph: exportGraph(editor, area) } })
SaveGraph ==
    /\ saved # ExportGraph
    /\ saved' = ExportGraph
    /\ UNCHANGED <<nodes, connections, outcome, pipeline, validation, storage, viewport,
                 generatedCode, showCodePreview>>

\* The page's load effect: importGraph(editor, area, logic.data.graph).
LoadGraph ==
    /\ saved # NoGraph
    /\ outcome.op # "importGraph"
    /\ NextUid(nodes) + Len(ImportableNodes(saved)) - 1 <= MaxUid
    /\ LET imported == ImportGraph(saved, nodes, viewport)
       IN  /\ nodes' = imported.nodes
           /\ connections' = imported.connections
           /\ viewport' = imported.viewport
           /\ outcome' = [graph |-> saved]
                             @@ Outcome("importGraph",
                                        IF imported.status = "ok"
                                        THEN Returned(<<>>, <<>>, <<>>, <<>>)
                                        ELSE Thrown(ValidationError("thrown", <<>>, {}),
                                                    <<>>))
    /\ UNCHANGED <<pipeline, validation, storage, generatedCode, showCodePreview, saved>>

\* An editor that is built, saved once and loaded again.
NextRoundTrip ==
    \/ /\ saved = NoGraph
       /\ \E kind \in Palette : AddNode(kind)
    \/ /\ saved = NoGraph
       /\ \E s \in DOMAIN nodes, t \in DOMAIN nodes :
             \E plug \in Plugs(nodes[s], nodes[t]) : AddConnection(s, t, plug)
    \/ /\ saved = NoGraph
       /\ SaveGraph
    \/ LoadGraph

SpecRoundTrip == Init /\ [][NextRoundTrip]_vars

\* ---------------------------------------------------------- stored graphs
\* The kinds a stored or handed-over graph names: registered ones and "const",
\* a kind of an earlier editor that createNodeByKind no longer builds.
StoredKinds == {"dataLoader", "scaler", "classifier", "const"}

StoredNode(i, kind) ==
    [id |-> NodeId(i), label |-> Label(kind), kind |-> kind,
     position |-> [x |-> 0, y |-> 0],
     controls |-> [algorithm |-> IF kind = "classifier" THEN "RandomForest" ELSE ""]]

\* The connections such a graph may hold, in stored order: loader to second
\* node, second to third node, and one into an input key ("data") that none of
\* the stored kinds declares.
StoredWires ==
    <<Connection(NodeId(1), "data", NodeId(2), "X_train"),
      Connection(NodeId(2), "X_train", NodeId(3), "X_train"),
      Connection(NodeId(1), "data", NodeId(3), "data")>>

\* GraphData / SerializedGraph values of three nodes.
StoredGraphs ==
    {[nodes |-> [i \in 1..3 |-> StoredNode(i, kinds[i])],
      connections |-> SelectSeq(StoredWires, LAMBDA w : w \in selection),
      viewport |-> InitialTransform] :
        kinds \in [1..3 -> StoredKinds], selection \in SUBSET Range(StoredWires)}

InitStored ==
    /\ nodes = <<>>
    /\ connections = <<>>
    /\ outcome = NoOutcome
    /\ pipeline = NoPipeline
    /\ validation = NotValidated
    /\ storage = FALSE
    /\ viewport = InitialTransform
    /\ generatedCode = NoCode
    /\ showCodePreview = FALSE
    /\ saved \in StoredGraphs

\* generatePythonCode(graph) called with the stored graph.
CompileStored ==
    /\ outcome.op # "generatePythonCode"
    /\ outcome' = [graph |-> GraphLeft(saved)]
                      @@ Outcome("generatePythonCode",
                                 GeneratePythonCode(saved.nodes, saved.connections))
    /\ UNCHANGED <<nodes, connections, pipeline, validation, storage, viewport,
                 generatedCode, showCodePreview, saved>>

NextStored == LoadGraph \/ CompileStored

SpecStored == InitStored /\ [][NextStored]_vars

\* ------------------------------------------- a canvas fed by both sources
\* Proposals handed to applyPipelineToCanvas here: a loader "a" and a second
\* node "b" of a registered or an unregistered kind, wired not at all (the
\* nodes are then joined in order), by exact key, by a key in another case,
\* into a socket the node does not declare, or to a node "z" that is missing.
ProposedWirings ==
    {<<>>,
     <<Connection(<<"a">>, "data", <<"b">>, "X_train")>>,
     <<Connection(<<"a">>, "data", <<"b">>, "x_train"),
       Connection(<<"a">>, "data", <<"b">>, "X_train")>>,
     <<Connection(<<"a">>, "data", <<"b">>, "bogus")>>,
     <<Connection(<<"a">>, "data", <<"z">>, "X_train")>>,
     <<Connection(<<"a">>, "X_train", <<"b">>, "X_train"),
       Connection(<<"a">>, "data", <<"b">>, "X_test")>>}

CanvasProposals ==
    {[nodes |-> <<[id |-> <<"a">>, step |-> 1, kind |-> "dataLoader"],
                  [id |-> <<"b">>, step |-> 2, kind |-> kind]>>,
      connections |-> wiring] :
        kind \in {"scaler", "const"}, wiring \in ProposedWirings}

\* The stored graphs the page loads here: a loader, a scaler and a third node.
CanvasGraphs ==
    {g \in StoredGraphs : /\ g.nodes[1].kind = "dataLoader"
                          /\ g.nodes[2].kind = "scaler"
                          /\ g.nodes[3].kind \in {"scaler", "const"}}

InitCanvas ==
    /\ nodes = <<>>
    /\ connections = <<>>
    /\ outcome = NoOutcome
    /\ pipeline = NoPipeline
    /\ validation = NotValidated
    /\ storage = FALSE
    /\ viewport = InitialTransform
    /\ generatedCode = NoCode
    /\ showCodePreview = FALSE
    /\ saved \in CanvasGraphs

\* applyPipelineToCanvas(p), called by the generator panel with the pipeline
\* it produced.
ApplyToCanvas(p) ==
    /\ NextUid(nodes) + Len(p.nodes) - 1 <= MaxUid
    /\ LET applied == ApplyPipeline(p, nodes, connections)
       IN  /\ nodes' = applied.nodes
           /\ connections' = applied.connections
           /\ outcome' = Outcome("applyPipelineToCanvas",
                                 IF applied.status = "ok"
                                 THEN Returned(<<>>, <<>>, <<>>, <<>>)
                                 ELSE Thrown(ValidationError(applied.status,
                                                             applied.errors, {}), <<>>))
    /\ pipeline' = p
    /\ UNCHANGED <<validation, storage, viewport, generatedCode, showCodePreview, saved>>

NextCanvas ==
    \/ \E p \in CanvasProposals : ApplyToCanvas(p)
    \/ LoadGraph

SpecCanvas == InitCanvas /\ [][NextCanvas]_vars

\* -------------------------------------------------- compiling a pipeline
\* The graphs of a whole pipeline: a loader, a split, a scaler, one training
\* step, a predict and an evaluate node, inserted in this order or in the
\* reverse one, with any selection of the connections drawn between them.
TrainingKinds == {"featureSelection", "classifier", "regressor", "neuralNet", "hyperparamTune"}

StageKinds(training) ==
    <<"dataLoader", "dataSplit", "scaler", training, "predict", "evaluate">>

StageNodes(kinds) == [i \in DOMAIN kinds |-> [id |-> NodeId(i), kind |-> kinds[i]]]

IdOfKind(ns, kind) == ns[CHOOSE i \in DOMAIN ns : ns[i].kind = kind].id

\* The connections a user may draw between the stages, in drawing order.
Wires(ns, training) ==
    LET id(kind) == IdOfKind(ns, kind)
    IN  <<Connection(id("dataLoader"), "data", id("dataSplit"), "data"),
          Connection(id("dataSplit"), "X_train", id("scaler"), "X_train"),
          Connection(id("dataSplit"), "X_test", id("scaler"), "X_test"),
          Connection(id("scaler"), "X_train", id(training), "X_train"),
          Connection(id("dataSplit"), "y_train", id(training), "y_train"),
          Connection(id(training), "model", id("predict"), "model"),
          Connection(id("scaler"), "X_test", id("predict"), "X_test"),
          Connection(id("predict"), "prediction", id("evaluate"), "prediction"),
          Connection(id("dataSplit"), "y_test", id("evaluate"), "y_test"),
          Connection(id(training), "model", id("evaluate"), "model"),
          Connection(id("scaler"), "X_test", id("evaluate"), "X_test")>>

\* The wires drawn: those of the selection whose output socket the source
\* node has.
Drawn(ns, training, selection) ==
    LET wires == Wires(ns, training)
        picked == {i \in DOMAIN wires :
                      /\ i \in selection
                      /\ \E n \in Range(ns) :
                            n.id = wires[i].source /\ wires[i].sourceOutput \in Outputs(n.kind)}
        nth(k) == CHOOSE i \in picked : Cardinality({j \in picked : j <= i}) = k
    IN  [k \in 1..Cardinality(picked) |-> wires[nth(k)]]

InitCompile ==
    /\ \E training \in TrainingKinds, reversed \in BOOLEAN :
          LET kinds == StageKinds(training)
              ns == StageNodes(IF reversed THEN Reverse(kinds) ELSE kinds)
          IN  /\ nodes = ns
              /\ \E selection \in SUBSET DOMAIN Wires(ns, training) :
                    connections = Drawn(ns, training, selection)
    /\ outcome = NoOutcome
    /\ pipeline = NoPipeline
    /\ validation = NotValidated
    /\ storage \in BOOLEAN
    /\ viewport = InitialTransform
    /\ generatedCode = NoCode
    /\ showCodePreview = FALSE
    /\ saved = NoGraph

NextCompile == PreviewCode \/ ExportJupyter \/ ExportPython

SpecCompile == InitCompile /\ [][NextCompile]_vars

\* ------------------------------------------ compiling an exported snapshot
\* The editors of a loader, a split and a model node (classifier or
\* regressor), with or without a second loader: every value of the model's
\* algorithm control, listed by a dropdown or not, every placing of the nodes,
\* any selection of the three connections, zoomed and panned or not.
AlgorithmValues ==
    AlgorithmOptions("classifier") \cup AlgorithmOptions("regressor") \cup {"", "XGBoost"}

Positions == {[x |-> 0, y |-> 0], [x |-> 120, y |-> 40]}

Viewports == {InitialTransform, [k |-> 2, x |-> 30, y |-> 75]}

InitSnapshot ==
    /\ \E model \in {"classifier", "regressor"}, algorithm \in AlgorithmValues,
          count \in {3, 4}, place \in [1..4 -> Positions] :
          LET kinds == <<"dataLoader", "dataSplit", model, "dataLoader">>
              ns == [i \in 1..count |->
                        [id |-> NodeId(i), kind |-> kinds[i], position |-> place[i],
                         controls |-> [algorithm |-> IF i = 3 THEN algorithm ELSE ""]]]
              wires == <<Connection(NodeId(1), "data", NodeId(2), "data"),
                         Connection(NodeId(2), "X_train", NodeId(3), "X_train"),
                         Connection(NodeId(2), "y_train", NodeId(3), "y_train")>>
          IN  /\ count = 3 => place[4] = place[3]
              /\ nodes = ns
              /\ \E drawn \in SUBSET (1..3) :
                    connections = SelectSeq(wires, LAMBDA w : \E i \in drawn : wires[i] = w)
    /\ outcome = NoOutcome
    /\ pipeline = NoPipeline
    /\ validation = NotValidated
    /\ storage \in BOOLEAN
    /\ viewport \in Viewports
    /\ generatedCode = NoCode
    /\ showCodePreview = FALSE
    /\ saved = NoGraph

SpecSnapshot == InitSnapshot /\ [][NextCompile]_vars

\* ------------------------------------------------------------- properties
\* The directed graph of a connection list, taken on its own terms.
EdgeSet(cs) == {<<cs[i].source, cs[i].target>> : i \in DOMAIN cs}

RECURSIVE TransitiveClosure(_)
TransitiveClosure(R) ==
    LET step == R \cup {<<xy[1][1], xy[2][2]>> : xy \in {pq \in R \X R : pq[1][2] = pq[2][1]}}
    IN  IF step = R THEN R ELSE TransitiveClosure(step)

\* Some node lies on a directed cycle (a self-loop included).
Cyclic(cs) == \E e \in TransitiveClosure(EdgeSet(cs)) : e[1] = e[2]

\* A compile entry point has been called on the graph the editor now holds.
Compiled ==
    outcome.op \in {"generatePythonCode", "generateJupyterNotebook", "generatePythonScript"}

\* Position of an id in a schedule (0: absent).
Position(ids, id) ==
    IF id \in Range(ids) THEN CHOOSE i \in DOMAIN ids : ids[i] = id ELSE 0

\* C1: every graph whose connections contain a directed cycle is refused by
\* the gate validation of every compile entry point, and neither
\* topologicalSort nor nodeToCode is called for it.
C1_CyclicGraphRefused ==
    (Compiled /\ Cyclic(connections)) =>
        /\ outcome.status = "error"
        /\ "topologicalSort" \notin Range(outcome.calls)
        /\ "nodeToCode" \notin Range(outcome.calls)

\* C2: for an acyclic graph that the gate accepts, the schedule holds every
\* node exactly once and every connection's source before its target; a chain
\* a -> b -> c is scheduled <<a, b, c>> whatever the insertion order.
C2_ScheduleIsTopologicalOrder ==
    (Compiled /\ outcome.status = "ok" /\ ~Cyclic(connections)) =>
        /\ Len(outcome.sorted) = Len(nodes)
        /\ Range(outcome.sorted) = Range(NodeIds(nodes))
        /\ \A i \in DOMAIN connections :
              Position(outcome.sorted, connections[i].source)
                  < Position(outcome.sorted, connections[i].target)
        /\ \A a, b, c \in Range(NodeIds(nodes)) :
              (Len(nodes) = 3 /\ EdgeSet(connections) = {<<a, b>>, <<b, c>>}
                  /\ a # b /\ b # c /\ a # c)
              => outcome.sorted = <<a, b, c>>

\* A chain inserted in the order c, b, a has been compiled.
C2_Witness ==
    /\ Compiled /\ outcome.status = "ok"
    /\ Len(nodes) = 3
    /\ EdgeSet(connections) = {<<NodeId(3), NodeId(2)>>, <<NodeId(2), NodeId(1)>>}
    /\ outcome.sorted = <<NodeId(3), NodeId(2), NodeId(1)>>

\* C3: in the text generatePythonCode returns, every identifier a block reads
\* for a connected input is assigned by the block of the connection's source
\* node, and that block comes earlier.
C3_ReadsAssignedBySourceBlock ==
    (Compiled /\ outcome.status = "ok") =>
        \A i \in DOMAIN outcome.blocks :
            \A r \in outcome.blocks[i].reads :
                r.source # <<>> =>
                    \E j \in 1..(i - 1) :
                        /\ outcome.blocks[j].id = r.source
                        /\ r.name \in outcome.blocks[j].defs

\* C4: the names getSimpleVarName hands out within one compilation are
\* pairwise distinct.
C4_VarNamesDistinct ==
    (Compiled /\ outcome.status = "ok") =>
        \A i, j \in DOMAIN outcome.names :
            i # j => outcome.names[i] # outcome.names[j]

\* The gate's three checks, read off the graph itself.
HasDataLoader == \E i \in DOMAIN nodes : nodes[i].kind = "dataLoader"

Touched(id) == \E e \in EdgeSet(connections) : id \in {e[1], e[2]}

HasIncoming(id) == \E e \in EdgeSet(connections) : e[2] = id

InputConnected(id, key) ==
    \E i \in DOMAIN connections :
        connections[i].target = id /\ connections[i].targetInput = key

\* Non-entry nodes that no connection touches.
IsolatedNodes == {i \in DOMAIN nodes : nodes[i].kind # "dataLoader" /\ ~Touched(nodes[i].id)}

\* Non-entry nodes without an incoming connection.
RootlessNodes ==
    {i \in DOMAIN nodes : nodes[i].kind # "dataLoader" /\ ~HasIncoming(nodes[i].id)}

Trainers == {i \in DOMAIN nodes : nodes[i].kind \in {"classifier", "regressor", "neuralNet"}}

\* Nodes the required-input check refuses.
LackingInputs ==
    {i \in DOMAIN nodes :
        \/ nodes[i].kind = "dataSplit" /\ ~HasIncoming(nodes[i].id)
        \/ i \in Trainers /\ (~InputConnected(nodes[i].id, "X_train")
                                \/ ~InputConnected(nodes[i].id, "y_train"))}

GateFails == Len(nodes) = 0 \/ ~HasDataLoader \/ IsolatedNodes # {} \/ LackingInputs # {}

\* C5: when gate validation fails, every compile entry point throws and
\* returns no text; no block was generated.
C5_NoTextWhenGateFails ==
    (Compiled /\ GateFails) =>
        /\ outcome.status = "error"
        /\ outcome.error # NoError
        /\ outcome.blocks = <<>>
        /\ "nodeToCode" \notin Range(outcome.calls)

\* The notebook export was refused for a graph with an unconnected trainer input.
C5_Witness ==
    /\ outcome.op = "generateJupyterNotebook"
    /\ HasDataLoader /\ IsolatedNodes = {} /\ LackingInputs # {}
    /\ outcome.status = "error"

HalfConnected(i, missing) ==
    /\ i \in Trainers
    /\ ~InputConnected(nodes[i].id, missing)
    /\ \A k \in {"X_train", "y_train"} \ {missing} : InputConnected(nodes[i].id, k)

ProposalIds == Range(PipelineNodeIds(pipeline))

HasDuplicateId == Len(pipeline.nodes) # Cardinality(ProposalIds)

LacksDataLoader == \A i \in DOMAIN pipeline.nodes : pipeline.nodes[i].kind # "dataLoader"

\* The violations of the checks that fail on the proposal, each check taken
\* on its own.
FailingChecks ==
    (IF Len(pipeline.nodes) = 0 THEN {"noNodes"} ELSE {})
        \cup (IF LacksDataLoader THEN {"noDataLoader"} ELSE {})
        \cup (IF Cyclic(pipeline.connections) THEN {"cycle"} ELSE {})
        \cup (IF HasDuplicateId THEN {"duplicateId"} ELSE {})

\* C9 as stated: the returned list holds one violation for every failing
\* check among empty node set, missing data loader, cycle and duplicate id.
C9_EveryFailingCheckReported ==
    validation.done =>
        /\ Range(validation.errors) = FailingChecks
        /\ Len(validation.errors) = Cardinality(FailingChecks)

\* C9 amended: for a non-empty node list the returned list holds exactly one
\* violation for every failing check among missing data loader, cycle and
\* duplicate id, in that order; for an empty node list it holds the empty-set
\* violation alone and no other check is run.
C9_FailingChecksOfNonEmptyReported ==
    validation.done =>
        IF Len(pipeline.nodes) = 0
        THEN validation.errors = <<"noNodes">> /\ validation.dfsCalls = 0
        ELSE /\ Range(validation.errors) = FailingChecks
             /\ Len(validation.errors) = Cardinality(FailingChecks)
             /\ \A i, j \in DOMAIN validation.errors :
                   (validation.errors[i] = "noDataLoader" \/ validation.errors[j] = "duplicateId")
                       /\ i # j /\ validation.errors[i] # "duplicateId" => i < j

\* A proposal failing three checks at once got all three reported.
C9_Witness ==
    /\ validation.done
    /\ LacksDataLoader /\ Cyclic(pipeline.connections) /\ HasDuplicateId
    /\ validation.errors = <<"noDataLoader", "cycle", "duplicateId">>

\* C10 as stated: validatePipeline reports a cycle exactly when the
\* connections contain a directed cycle, for every node list and connection
\* list.
C10_CycleReportedIffCyclic ==
    validation.done =>
        ("cycle" \in Range(validation.errors) <=> Cyclic(pipeline.connections))

\* C10 amended: for every non-empty node list and every connection list,
\* validatePipeline reports a cycle exactly when the connections contain a
\* directed cycle (self-loops included), and the search ends after at most one
\* hasCycle call per id that occurs in the proposal; for an empty node list
\* the search is not run and no cycle is reported.
C10_CycleCheckExact ==
    validation.done =>
        /\ DetectCycle(pipeline).found <=> Cyclic(pipeline.connections)
        /\ DetectCycle(pipeline).calls
              <= Cardinality(ProposalIds
                                \cup {e[1] : e \in EdgeSet(pipeline.connections)}
                                \cup {e[2] : e \in EdgeSet(pipeline.connections)})
        /\ IF Len(pipeline.nodes) > 0
           THEN /\ "cycle" \in Range(validation.errors) <=> Cyclic(pipeline.connections)
                /\ validation.dfsCalls = DetectCycle(pipeline).calls
           ELSE "cycle" \notin Range(validation.errors) /\ validation.dfsCalls = 0

\* A proposal whose two connections form a cycle through two different ids
\* has been validated and the cycle reported.
C10_Witness ==
    /\ validation.done
    /\ Len(pipeline.nodes) > 0
    /\ Len(pipeline.connections) = 2
    /\ pipeline.connections[1].source = pipeline.connections[2].target
    /\ pipeline.connections[2].source = pipeline.connections[1].target
    /\ pipeline.connections[1].source # pipeline.connections[1].target
    /\ "cycle" \in Range(validation.errors)

\* ------------------------------------- properties of applyPipelineToCanvas
Applied == outcome.op = "applyPipelineToCanvas"

\* Two nodes of the proposal carry the same id (node.id, or node-<step>).
SharedId ==
    \E i, j \in DOMAIN pipeline.nodes :
        i # j /\ PipelineNodeId(pipeline.nodes[i]) = PipelineNodeId(pipeline.nodes[j])

\* C11: validatePipeline reports a duplicate id exactly when two nodes of the
\* proposal have the same id, and applyPipelineToCanvas adds nothing of such
\* a proposal to the editor.
C11_DuplicateIdReportedAndNotMerged ==
    /\ []("duplicateId" \in Range(ValidatePipeline(pipeline)) <=> SharedId)
    /\ []((Applied /\ SharedId) => "duplicateId" \in Range(outcome.error.labels))
    /\ [][SharedId => UNCHANGED <<nodes, connections>>]_vars

\* A proposal with a data loader, no cycle and two nodes of one id was refused
\* for the duplicate alone.
C11_Witness ==
    /\ Applied /\ SharedId
    /\ outcome.error.labels = <<"duplicateId">>

\* C12: when validatePipeline returns a violation, applyPipelineToCanvas
\* leaves the editor's nodes and connections as they were.
C12_RefusedProposalLeavesEditorUnchanged ==
    /\ [][Len(ValidatePipeline(pipeline)) > 0 => UNCHANGED <<nodes, connections>>]_vars
    /\ []((Applied /\ Len(ValidatePipeline(pipeline)) > 0) =>
             outcome.error.type = "refused")

\* A proposal with nodes was refused on a canvas that held a node.
C12_Witness ==
    /\ Applied
    /\ outcome.error.type = "refused"
    /\ Len(pipeline.nodes) > 0
    /\ nodes # <<>>

\* ------------------------------------------ properties of the schedule order
\* The schedule of the graph the editor holds.
SortedIds == NodeIds(TopologicalSort(nodes, connections))

\* The ids of the nodes without incoming connection, in insertion order.
Roots == SelectSeq(NodeIds(nodes), LAMBDA id : ~HasIncoming(id))

\* The schedule position of the predecessor scheduled last, and the index of
\* the last connection from that predecessor: the moment a node is enqueued.
ReleasedAt(id) ==
    LET at == {Position(SortedIds, connections[i].source) :
                  i \in {j \in DOMAIN connections : connections[j].target = id}}
    IN  CHOOSE a \in at : \A b \in at : b <= a

ReleasedBy(id) ==
    LET by == {i \in DOMAIN connections :
                  /\ connections[i].target = id
                  /\ Position(SortedIds, connections[i].source) = ReleasedAt(id)}
    IN  CHOOSE a \in by : \A b \in by : b <= a

\* C13: topologicalSort emits the nodes without incoming connection first, in
\* insertion order, and every other node in the order in which it was
\* enqueued (first in, first out).
C13_RootsFirstThenFifo ==
    /\ Len(SortedIds) >= Len(Roots)
    /\ SubSeq(SortedIds, 1, Len(Roots)) = Roots
    /\ ~Cyclic(connections) =>
          \A u, v \in Range(SortedIds) \ Range(Roots) :
              u # v =>
                  (Position(SortedIds, u) < Position(SortedIds, v)
                      <=> \/ ReleasedAt(u) < ReleasedAt(v)
                          \/ /\ ReleasedAt(u) = ReleasedAt(v)
                             /\ ReleasedBy(u) < ReleasedBy(v))
    /\ (Compiled /\ outcome.status = "ok") => outcome.sorted = SortedIds

\* Two nodes without incoming connection, inserted one after the other, and a
\* third node fed by one of them were compiled: the two come first, in
\* insertion order.
C13_Witness ==
    /\ Compiled /\ outcome.status = "ok"
    /\ Len(nodes) = 3 /\ Len(Roots) = 2
    /\ connections # <<>>
    /\ outcome.sorted = <<NodeId(1), NodeId(2), NodeId(3)>>

\* ------------------------------------------------ properties of nodeToCode
\* The inputs a kind's block cannot do without.
NeededInputs(kind) ==
    CASE kind = "dataSplit" -> {"data"}
      [] kind = "scaler" -> {"X_train"}
      [] kind = "predict" -> {"model", "X_test"}
      [] kind = "evaluate" -> {"y_test"}
      [] kind \in {"featureSelection", "classifier", "regressor", "neuralNet",
                   "hyperparamTune"} -> {"X_train", "y_train"}
      [] OTHER -> {}

\* C14: a block whose node has a needed input without incoming connection is
\* an unmet-dependency notice and nothing else, and no block reads an
\* identifier for an input that is not connected.
C14_UnconnectedInputGetsNotice ==
    (Compiled /\ outcome.status = "ok") =>
        \A i \in DOMAIN outcome.blocks :
            /\ \A r \in outcome.blocks[i].reads : r.source # <<>>
            /\ (\E key \in NeededInputs(outcome.blocks[i].kind) :
                    ~InputConnected(outcome.blocks[i].id, key))
                   => outcome.blocks[i].form = "warning"

\* The inputs a block cannot be written without and that are not connected.
\* An evaluate block needs y_test and either prediction or model with X_test.
MissingInputs(id, kind) ==
    LET unconnected(keys) == {k \in keys : ~InputConnected(id, k)}
    IN  CASE kind \in {"featureSelection", "hyperparamTune"} ->
                unconnected({"X_train", "y_train"})
          [] kind = "predict" -> unconnected({"model", "X_test"})
          [] kind = "evaluate" ->
                IF /\ ~InputConnected(id, "prediction")
                   /\ unconnected({"model", "X_test"}) # {}
                THEN unconnected({"prediction", "model", "X_test", "y_test"})
                ELSE unconnected({"y_test"})
          [] OTHER -> {}

SourceKind(id, key) ==
    LET k == FindConn(connections, id, key)
    IN  IF k = 0 THEN "" ELSE NodeById(nodes, connections[k].source).kind

RegressionForms == {"evaluateRegressionModel", "evaluateRegressionPrediction"}

ClassificationForms == {"evaluateClassificationModel", "evaluateClassificationPrediction"}

\* C16: an evaluate block that is no warning is the regression metric block
\* when the node's model input comes from a regressor and the classification
\* metric block when it comes from any other kind of node.
C16_MetricsFollowModelSource ==
    (Compiled /\ outcome.status = "ok") =>
        \A i \in DOMAIN outcome.blocks :
            LET b == outcome.blocks[i]
            IN  (b.kind = "evaluate" /\ b.form # "warning"
                     /\ InputConnected(b.id, "model")) =>
                    IF SourceKind(b.id, "model") = "regressor"
                    THEN b.form \in RegressionForms
                    ELSE b.form \in ClassificationForms

\* An evaluate node fed by a regressor's model got the regression metrics.
C16_Witness ==
    /\ Compiled /\ outcome.status = "ok"
    /\ \E i \in DOMAIN outcome.blocks :
          /\ outcome.blocks[i].kind = "evaluate"
          /\ SourceKind(outcome.blocks[i].id, "model") = "regressor"
          /\ outcome.blocks[i].form = "evaluateRegressionModel"

\* C17: an evaluate node with prediction and y_test connected and model
\* unconnected, whose prediction comes from a predict node fed by a
\* regressor's model, gets the regression metric block.
C17_MetricsFollowPredictionSource ==
    (Compiled /\ outcome.status = "ok") =>
        \A i \in DOMAIN outcome.blocks :
            LET b == outcome.blocks[i]
                k == FindConn(connections, b.id, "prediction")
            IN  (/\ b.kind = "evaluate"
                 /\ k # 0
                 /\ InputConnected(b.id, "y_test")
                 /\ ~InputConnected(b.id, "model")
                 /\ SourceKind(b.id, "prediction") = "predict"
                 /\ SourceKind(connections[k].source, "model") = "regressor")
                    => b.form \in RegressionForms

\* C18: with X_train connected, a scaler block whose node has no X_test
\* connection calls fit_transform once, on the X_train source, and neither
\* reads nor assigns an X_test variable; with X_test connected as well it
\* calls fit_transform on the X_train source and transform, never a fit, on
\* the X_test source.
C18_ScalerFitsOnTrainOnly ==
    (Compiled /\ outcome.status = "ok") =>
        \A i \in DOMAIN outcome.blocks :
            LET b == outcome.blocks[i]
                calls == ScalerCalls(b.form)
            IN  (b.kind = "scaler" /\ InputConnected(b.id, "X_train")) =>
                    /\ {r.input : r \in b.reads} = {calls[k].input : k \in DOMAIN calls}
                    /\ \A k \in DOMAIN calls :
                          calls[k].method \in {"fit", "fit_transform"} => calls[k].input = "X_train"
                    /\ IF InputConnected(b.id, "X_test")
                       THEN /\ calls = <<[method |-> "fit_transform", input |-> "X_train"],
                                         [method |-> "transform", input |-> "X_test"]>>
                            /\ \A r \in b.reads :
                                  r.source = connections[FindConn(connections, b.id, r.input)].source
                       ELSE /\ calls = <<[method |-> "fit_transform", input |-> "X_train"]>>
                            /\ \A r \in b.reads : r.input = "X_train"
                            /\ \A d \in b.defs : d.sfx # "X_test"

\* A scaler with both inputs connected and, in another compilation, one with
\* X_train alone: here the one with X_train alone.
C18_Witness ==
    /\ Compiled /\ outcome.status = "ok"
    /\ \E i \in DOMAIN outcome.blocks :
          /\ outcome.blocks[i].kind = "scaler"
          /\ InputConnected(outcome.blocks[i].id, "X_train")
          /\ ~InputConnected(outcome.blocks[i].id, "X_test")
          /\ outcome.blocks[i].form = "scaleTrainOnly"

\* ------------------------------------------- properties of generateImports
\* The import list is free of duplicates and holds the leading lines and the
\* lines of every kind present.
ImportsCompleteAndUnique ==
    /\ \A i, j \in DOMAIN outcome.imports :
          i # j => outcome.imports[i] # outcome.imports[j]
    /\ Range(outcome.imports)
          = Range(LeadingImports(nodes))
               \cup UNION {Range(ImportLines(nodes[i].kind)) : i \in DOMAIN nodes}

\* The lines in the order of their first occurrence when the nodes are visited
\* in the given order of ids.
FirstOccurrences(ids) ==
    Dedup(LeadingImports(nodes)
              \o AddedImports([i \in DOMAIN ids |-> NodeById(nodes, ids[i])]))

\* C19 as stated: the import list is duplicate-free and complete, and its
\* order is that of first occurrence when the nodes are visited in schedule
\* order, so that it does not depend on the insertion order of the nodes
\* (read for acyclic graphs, whose schedule holds every node).
C19_ImportsInScheduleOrder ==
    (Compiled /\ outcome.status = "ok" /\ ~Cyclic(connections)) =>
        /\ ImportsCompleteAndUnique
        /\ outcome.imports = FirstOccurrences(outcome.sorted)

\* C19 amended: the import list is duplicate-free and complete, and its order
\* is that of first occurrence when the nodes are visited in the order of the
\* graph's node list (insertion order), after the leading lines.
C19_ImportsInInsertionOrder ==
    (Compiled /\ outcome.status = "ok") =>
        /\ ImportsCompleteAndUnique
        /\ outcome.imports = FirstOccurrences(NodeIds(nodes))

\* An acyclic graph whose nodes were inserted in another order than they are
\* scheduled, with import lines of several kinds, has been compiled.
C19_Witness ==
    /\ Compiled /\ outcome.status = "ok"
    /\ ~Cyclic(connections)
    /\ FirstOccurrences(outcome.sorted) # FirstOccurrences(NodeIds(nodes))
    /\ outcome.imports = FirstOccurrences(NodeIds(nodes))

\* ----------------------------------- properties of generateJupyterNotebook
NotebookMade == outcome.op = "generateJupyterNotebook" /\ outcome.status = "ok"

\* The code cells that hold node text, as the sequence of their node ids.
BlockCellIds ==
    LET held == SelectSeq(outcome.cells, LAMBDA c : c.source.part = "block")
    IN  [i \in DOMAIN held |-> held[i].source.node]

\* C20 as stated: the notebook is one markdown cell, one code cell with the
\* imports, and then exactly one code cell for each scheduled block, in
\* schedule order, and nothing else.
C20_OneCellPerBlock ==
    NotebookMade =>
        /\ Len(outcome.cells) = 2 + Len(outcome.blocks)
        /\ outcome.cells[1].cell_type = "markdown"
        /\ outcome.cells[2].source.part = "imports"
        /\ \A i \in 3..Len(outcome.cells) : outcome.cells[i].source.part = "block"
        /\ BlockCellIds = outcome.sorted

\* C20 amended: the notebook is one markdown cell followed by one code cell
\* per part of the generated text between blank lines: the imports, the
\* heading banner, the blocks in schedule order, a block whose text holds a
\* blank line (predict, embedded-CSV loader) taking two consecutive cells and
\* every other block one, and the closing banner.
C20_OneCellPerSection ==
    NotebookMade =>
        LET cells == outcome.cells
            count(id) == Cardinality({i \in DOMAIN cells :
                                         cells[i].source.part = "block"
                                             /\ cells[i].source.node = id})
        IN  /\ cells[1].cell_type = "markdown"
            /\ \A i \in 2..Len(cells) : cells[i].cell_type = "code"
            /\ cells[2].source.part = "imports"
            /\ cells[3].source.part = "heading"
            /\ cells[Len(cells)].source.part = "complete"
            /\ \A i \in 4..(Len(cells) - 1) : cells[i].source.part = "block"
            /\ Dedup(BlockCellIds) = outcome.sorted
            /\ \A i, j \in DOMAIN BlockCellIds :
                  (i < j /\ BlockCellIds[i] = BlockCellIds[j]) =>
                      \A k \in i..j : BlockCellIds[k] = BlockCellIds[i]
            /\ \A i \in DOMAIN outcome.blocks :
                  count(outcome.blocks[i].id)
                      = IF outcome.blocks[i].form \in {"predict", "loadEmbedded"}
                        THEN 2 ELSE 1

\* A notebook was made of a pipeline with an embedded-CSV loader and a
\* predict block.
C20_Witness ==
    /\ NotebookMade
    /\ \E i, j \in DOMAIN outcome.blocks :
          /\ outcome.blocks[i].form = "predict"
          /\ outcome.blocks[j].form = "loadEmbedded"
    /\ Len(outcome.cells) = 6 + Len(outcome.blocks)

\* --------------------------------------- properties of the model templates
\* The constructor each dropdown value stands for.
OwnConstructor(algorithm) ==
    CASE algorithm = "RandomForest" -> "RandomForestClassifier"
      [] algorithm = "LogisticRegression" -> "LogisticRegression"
      [] algorithm = "SVM" -> "SVC"
      [] algorithm = "DecisionTree" -> "DecisionTreeClassifier"
      [] algorithm = "KNN" -> "KNeighborsClassifier"
      [] algorithm = "GradientBoosting" -> "GradientBoostingClassifier"
      [] algorithm = "LinearRegression" -> "LinearRegression"
      [] algorithm = "Ridge" -> "Ridge"
      [] algorithm = "Lasso" -> "Lasso"
      [] algorithm = "RandomForestRegressor" -> "RandomForestRegressor"
      [] algorithm = "SVR" -> "SVR"
      [] algorithm = "GradientBoostingRegressor" -> "GradientBoostingRegressor"

DefaultConstructor(kind) ==
    IF kind = "classifier" THEN "RandomForestClassifier" ELSE "LinearRegression"

\* The algorithm control of the editor's node with the id.
AlgorithmControl(id) == (CHOOSE n \in Range(nodes) : n.id = id).controls.algorithm

\* C21: a classifier or regressor whose algorithm control holds a value
\* outside the kind's dropdown is compiled without error and its block calls
\* the kind's default constructor (RandomForestClassifier, LinearRegression);
\* every dropdown value gets its own constructor.
C21_UnlistedAlgorithmFallsBack ==
    (Compiled /\ ~GateFails) =>
        /\ outcome.status = "ok"
        /\ \A i \in Trainers :
              \E b \in Range(outcome.blocks) :
                  /\ b.id = nodes[i].id
                  /\ b.form \in {"trainClassifier", "trainRegressor"}
                  /\ b.ctor = IF AlgorithmControl(b.id) \in AlgorithmOptions(b.kind)
                              THEN OwnConstructor(AlgorithmControl(b.id))
                              ELSE DefaultConstructor(b.kind)

\* A classifier set to a regressor's algorithm has been compiled to a block
\* calling RandomForestClassifier.
C21_Witness ==
    /\ Compiled /\ outcome.status = "ok"
    /\ \E b \in Range(outcome.blocks) :
          /\ b.kind = "classifier"
          /\ AlgorithmControl(b.id) = "Ridge"
          /\ b.form = "trainClassifier"
          /\ b.ctor = "RandomForestClassifier"

\* ------------------------------------------- properties of repeated calls
\* The text a compile call returned, or the error it threw.
Text(result) ==
    IF result.status = "ok"
    THEN [status |-> "ok", imports |-> result.imports, blocks |-> result.blocks]
    ELSE [status |-> "error", error |-> result.error]

Loaded == outcome.op = "importGraph"

\* The id of the node re-created for the saved node with the id: the node at
\* the same place of the node list.
Recreated(id) ==
    ExportGraph.nodes[CHOOSE i \in DOMAIN outcome.graph.nodes :
                          outcome.graph.nodes[i].id = id].id

\* C24: an editor graph of registered kinds that is exported, imported and
\* exported again keeps the order of its nodes (kinds, controls, positions)
\* and of its connections, and topologicalSort gives the second export the
\* schedule of the first, each node replaced by the one re-created for it.
C24_RoundTripKeepsSchedule ==
    Loaded =>
        LET first == outcome.graph
            second == ExportGraph
        IN  /\ outcome.status = "ok"
            /\ Len(second.nodes) = Len(first.nodes)
            /\ \A i \in DOMAIN first.nodes :
                  /\ second.nodes[i].kind = first.nodes[i].kind
                  /\ second.nodes[i].controls = first.nodes[i].controls
                  /\ second.nodes[i].position = first.nodes[i].position
            /\ Len(second.connections) = Len(first.connections)
            /\ \A i \in DOMAIN first.connections :
                  second.connections[i]
                      = Connection(Recreated(first.connections[i].source),
                                   first.connections[i].sourceOutput,
                                   Recreated(first.connections[i].target),
                                   first.connections[i].targetInput)
            /\ NodeIds(TopologicalSort(second.nodes, second.connections))
                  = [i \in DOMAIN TopologicalSort(first.nodes, first.connections) |->
                        Recreated(TopologicalSort(first.nodes, first.connections)[i].id)]

\* A graph of three nodes whose schedule is not its insertion order has been
\* loaded again under new ids.
C24_Witness ==
    /\ Loaded
    /\ Len(outcome.graph.nodes) = 3
    /\ Len(outcome.graph.connections) >= 2
    /\ Len(TopologicalSort(outcome.graph.nodes, outcome.graph.connections)) = 3
    /\ NodeIds(TopologicalSort(outcome.graph.nodes, outcome.graph.connections))
          # NodeIds(outcome.graph.nodes)
    /\ Range(NodeIds(nodes)) \cap Range(NodeIds(outcome.graph.nodes)) = {}
    /\ Len(nodes) = 3

\* ------------------------------------------------- properties of the layout
\* The nodes with every position set to the origin.
Unplaced(ns) == [i \in DOMAIN ns |-> [ns[i] EXCEPT !.position = [x |-> 0, y |-> 0]]]

\* C25: the text generatePythonCode returns (or the error it throws) is the
\* one it returns for the same nodes and connections, in the same order, with
\* every node at the origin: node positions and the viewport do not enter it.
C25_TextIgnoresLayout ==
    Compiled =>
        /\ Text(outcome) = Text(GeneratePythonCode(Unplaced(ExportGraph.nodes), connections))
        /\ outcome.sorted
              = GeneratePythonCode(Unplaced(ExportGraph.nodes), connections).sorted

\* Text has been returned for a zoomed canvas with two loaders, the one
\* inserted first placed to the right of the other.
C25_Witness ==
    /\ Compiled /\ outcome.status = "ok"
    /\ viewport # InitialTransform
    /\ \E i, j \in DOMAIN nodes :
          /\ i < j
          /\ nodes[i].kind = "dataLoader" /\ nodes[j].kind = "dataLoader"
          /\ nodes[i].position.x > nodes[j].position.x
          /\ Position(outcome.sorted, nodes[i].id) < Position(outcome.sorted, nodes[j].id)

\* The node of an unregistered kind in the graph a call was given.
UnknownNodes(graph) == {i \in DOMAIN graph.nodes : graph.nodes[i].kind \notin MLKinds}

OnCycle == {e[1] : e \in {f \in TransitiveClosure(EdgeSet(connections)) : f[1] = f[2]}}

BehindCycle ==
    {e[2] : e \in {f \in TransitiveClosure(EdgeSet(connections)) : f[1] \in OnCycle}}

WellFormed(c, ns) ==
    \E s \in Range(ns), t \in Range(ns) :
        /\ s.id = c.source /\ c.sourceOutput \in Outputs(s.kind)
        /\ t.id = c.target /\ c.targetInput \in Inputs(t.kind)

\* The pipeline connection names two nodes of the pipeline and, ignoring
\* case, an output key of the first and an input key of the second.
Connectable(p, c) ==
    \E s \in Range(p.nodes), t \in Range(p.nodes) :
        /\ PipelineNodeId(s) = c.source /\ PipelineNodeId(t) = c.target
        /\ \E key \in Outputs(s.kind) : ToLowerCase(key) = ToLowerCase(c.sourceOutput)
        /\ \E key \in Inputs(t.kind) : ToLowerCase(key) = ToLowerCase(c.targetInput)

\* C28: after any sequence of applyPipelineToCanvas and importGraph calls
\* every connection of the editor joins two nodes the editor holds, through
\* an output key declared on the source and an input key declared on the
\* target; and a call of applyPipelineToCanvas with connections adds at most
\* one connection per pipeline connection that names two nodes of the pipeline
\* and sockets they declare (ignoring case), the others adding nothing.
C28_ConnectionsJoinDeclaredSockets ==
    /\ [](\A i \in DOMAIN connections : WellFormed(connections[i], nodes))
    /\ [][(/\ outcome'.op = "applyPipelineToCanvas"
           /\ pipeline'.connections # <<>>)
          => /\ Len(connections') >= Len(connections)
             /\ SubSeq(connections', 1, Len(connections)) = connections
             /\ Len(connections') - Len(connections)
                    <= Cardinality({i \in DOMAIN pipeline'.connections :
                                       Connectable(pipeline', pipeline'.connections[i])})]_vars

\* A stored graph was loaded and a pipeline applied on top of it whose first
\* connection names an undeclared socket and whose second one was added.
C28_Witness ==
    /\ outcome.op = "applyPipelineToCanvas"
    /\ outcome.status = "ok"
    /\ Len(pipeline.connections) = 2
    /\ ~Connectable(pipeline, pipeline.connections[1])
    /\ Len(nodes) = 5
    /\ Len(connections) = 3
    /\ connections[3].targetInput = "X_test"

\* The stages generatePythonCode ran, one entry per stage in running order.
Stages(calls) ==
    LET stage(call) == CASE call = "validatePipelineStructure" -> "gate"
                         [] call = "topologicalSort" -> "scheduling"
                         [] OTHER -> "emission"
    IN  Dedup([i \in DOMAIN calls |-> stage(calls[i])])

\* C29: a step of the code preview runs batch validation, then the gate,
\* then scheduling, then emission, stopping at the first that fails; it
\* stores the text and opens the preview only when batch validation found
\* nothing (the graph has a node, a data loader and no cycle) and the compile
\* call returned; when a step failed, the stored text and the preview flag
\* are what they were.
C29_PreviewStoresOnlyOnSuccess ==
    [][outcome'.op \in {"generatePythonCode", "validatePipeline"} =>
          /\ outcome'.op = "validatePipeline" =>
                /\ outcome'.calls = <<>>
                /\ outcome'.status = "error"
          /\ outcome'.op = "generatePythonCode" =>
                /\ nodes # <<>> /\ HasDataLoader /\ ~Cyclic(connections)
                /\ Stages(outcome'.calls) =
                      (IF outcome'.status = "ok"
                       THEN <<"gate", "scheduling", "emission">> ELSE <<"gate">>)
          /\ IF outcome'.op = "generatePythonCode" /\ outcome'.status = "ok"
             THEN /\ generatedCode' # NoCode
                  /\ Text(generatedCode') = Text(outcome')
                  /\ showCodePreview'
             ELSE /\ generatedCode' = generatedCode
                  /\ showCodePreview' = showCodePreview]_vars

\* A preview stored its text and opened the panel; the graph then got a node
\* the gate refuses, and the next preview failed with the text still stored.
C29_Witness ==
    /\ outcome.op = "generatePythonCode"
    /\ outcome.status = "error"
    /\ generatedCode # NoCode
    /\ Len(generatedCode.blocks) < Len(nodes)
    /\ showCodePreview

\* The evaluate blocks of the text a compile call returned.
EvaluateBlocks ==
    {b \in Range(outcome.blocks) : b.kind = "evaluate"}

\* C30: an evaluate node with prediction, model, X_test and y_test connected
\* gets the block that reads the variable of the prediction connection and
\* y_test only, with no predict call (it reads neither model nor X_test and
\* assigns no y_pred), in the regression form exactly when the model
\* connection comes from a regressor; an evaluate node with y_test unconnected
\* and either mode's inputs connected gets the warning about y_test alone.
C30_PredictionModeWinsOverModelMode ==
    (Compiled /\ outcome.status = "ok") =>
        \A b \in EvaluateBlocks :
            /\ (/\ InputConnected(b.id, "prediction")
                /\ InputConnected(b.id, "model")
                /\ InputConnected(b.id, "X_test")
                /\ InputConnected(b.id, "y_test")) =>
                   /\ b.form = (IF SourceKind(b.id, "model") = "regressor"
                                THEN "evaluateRegressionPrediction"
                                ELSE "evaluateClassificationPrediction")
                   /\ {r.input : r \in b.reads} = {"prediction", "y_test"}
                   /\ \E r \in b.reads :
                         /\ r.input = "prediction"
                         /\ r.source \in {n.id : n \in {m \in Range(nodes) : m.kind = "predict"}}
                         /\ r.name = Name("step", r.source, 0, "prediction")
                   /\ Lit("y_pred") \notin b.defs
            /\ (/\ ~InputConnected(b.id, "y_test")
                /\ \/ InputConnected(b.id, "prediction")
                   \/ InputConnected(b.id, "model") /\ InputConnected(b.id, "X_test")) =>
                   /\ b.form = "warning"
                   /\ b.missing = {"y_test"}

\* An evaluate node with all four inputs connected, its model coming from a
\* regressor, got the regression metrics computed on the connected prediction.
C30_Witness ==
    /\ Compiled /\ outcome.status = "ok"
    /\ \E b \in EvaluateBlocks :
          /\ InputConnected(b.id, "prediction")
          /\ InputConnected(b.id, "model")
          /\ InputConnected(b.id, "X_test")
          /\ InputConnected(b.id, "y_test")
          /\ SourceKind(b.id, "model") = "regressor"
          /\ b.form = "evaluateRegressionPrediction"

====
